---- MODULE Spec2Model ----
(***************************************************************************)
(* Model of the AI Math Agent (src/open_ai_example_calc.py) and of the     *)
(* NumberSumAgent (src/langchain_conv_example_calc.py).                    *)
(*                                                                         *)
(* Text is a sequence of one-character strings, so that the parser, the    *)
(* formatter and the regular expressions of the source are computed        *)
(* character by character.  Numbers are exact decimals held as integers in *)
(* units of 10^-TolDigits (the tolerance of calculate_confidence is one    *)
(* unit); the result of the local evaluation is an exact fraction          *)
(* [num, den] of such units.  Binary floating-point rounding, exponent     *)
(* notation, "inf"/"nan" and the literal "-0" are outside the model; the    *)
(* inputs that put a distance exactly on a tier boundary have the local    *)
(* result 0, where the decimal distance and the float distance coincide.   *)
(* Text is ASCII: letters, digits and white space of other scripts (which  *)
(* str.lower, str.strip, float and the patterns \d and \s also handle) are  *)
(* outside the model, and so are control characters other than white      *)
(* space and numerals with more than TolDigits digits after the point.     *)
(* Time stamps and the reasoning text of a CalculationResult are left out. *)
(*                                                                         *)
(* Specifications:                                                         *)
(*   Spec            one agent, calls made one after the other, with       *)
(*                   get_session_stats and export_history between them     *)
(*   SpecSession     a longer session of few different requests            *)
(*   SpecOverlapped  calls created together as tasks of one event loop     *)
(*   SpecMemory      a ConversationManager on its own                      *)
(*   SpecConfidence  calculate_confidence on its own                       *)
(*   SpecEngine      parse_math_expression and calculate_locally           *)
(*   SpecExtract     extract_result_from_response and the handling of the  *)
(*                   response in process_request                           *)
(*   SpecResponsive  a session with a collaborator that answers every call *)
(*   SpecSum         the NumberSumAgent of                                 *)
(*                   src/langchain_conv_example_calc.py: chat and the four *)
(*                   nodes of its graph                                    *)
(***************************************************************************)
EXTENDS Integers, Sequences, FiniteSets, TLC

\* ------------------------------------------------------------------ bounds
\* Largest capacity tried for a stand-alone ConversationManager.
MaxCap == 3
\* Messages added beyond the capacity of a stand-alone ConversationManager.
MaxExtra == 3
\* process_request calls started on one agent.
MaxCalls == 2
\* process_request calls started on one agent in a long session.
MaxSessionCalls == 4

\* ------------------------------------------------------- program constants
\* tolerance = 0.0001 = 10^-4
TolDigits == 4
\* ConversationManager.__init__(max_history = 10)
DefaultMaxHistory == 10
\* context[-5:]
ContextWindow == 5

RECURSIVE Pow10(_)
Pow10(n) == IF n = 0 THEN 1 ELSE 10 * Pow10(n - 1)

\* One unit of the number representation is 10^-TolDigits.
Scale == Pow10(TolDigits)
\* The default tolerance of calculate_confidence (0.0001), in units.
Tolerance == Scale \div Pow10(TolDigits)
\* The literal 0.0001 of the verification test in process_request, in units.
VerificationTolerance == Scale \div Pow10(TolDigits)

None == "None"

\* Optional[float]: an absent number, and a present one
NoNumber == [some |-> FALSE, val |-> 0]
Number(v) == [some |-> TRUE, val |-> v]

\* the Optional[float] of calculate_locally: None, and an exact fraction
NoLocal == [some |-> FALSE, num |-> 0, den |-> 1]
Local(n, d) == [some |-> TRUE, num |-> n, den |-> d]

Abs(x) == IF x < 0 THEN -x ELSE x

RECURSIVE Gcd(_, _)
Gcd(a, b) == IF b = 0 THEN a ELSE Gcd(b, a % b)

\* the fraction a / b (b > 0) of units, in lowest terms
Fraction(a, b) ==
  LET g == Gcd(Abs(a), b)
  IN Local(a \div g, b \div g)

\* the product of two numbers of units, as a fraction of units
Product(a, b) ==
  LET g1 == Gcd(Abs(a), Scale)
      g2 == Gcd(Abs(b), Scale \div g1)
  IN Fraction((a \div g1) * (b \div g2), Scale \div (g1 * g2))

\* the quotient of two numbers of units (b # 0), as a fraction of units
Quotient(a, b) ==
  LET g == Gcd(Abs(a), Abs(b))
      n == (IF b < 0 THEN -a ELSE a) \div g
      d == Abs(b) \div g
      h == Gcd(Scale, d)
  IN Fraction(n * (Scale \div h), d \div h)

\* ------------------------------------------------------------------- text
DigitChars == <<"0", "1", "2", "3", "4", "5", "6", "7", "8", "9">>
UpperChars == <<"A", "B", "C", "D", "E", "F", "G", "H", "I", "J", "K", "L", "M",
                "N", "O", "P", "Q", "R", "S", "T", "U", "V", "W", "X", "Y", "Z">>
LowerChars == <<"a", "b", "c", "d", "e", "f", "g", "h", "i", "j", "k", "l", "m",
                "n", "o", "p", "q", "r", "s", "t", "u", "v", "w", "x", "y", "z">>

DigitSet == {DigitChars[k] : k \in 1..10}
DigitValues == [c \in DigitSet |-> (CHOOSE k \in 1..10 : DigitChars[k] = c) - 1]
UpperSet == {UpperChars[k] : k \in 1..26}
LowerOf == [c \in UpperSet |-> LowerChars[CHOOSE k \in 1..26 : UpperChars[k] = c]]

IsDigit(c) == c \in DigitSet
DigitVal(c) == DigitValues[c]

\* The white space of ASCII: the characters that str.strip removes and that
\* \s matches (float skips fewer, see FloatSpace).  Vertical tab and the four
\* separators 0x1c to 0x1f have no escape and are written as they are.
CharVT == ""
CharFS == ""
CharGS == ""
CharRS == ""
CharUS == ""
WhiteSpace == {" ", "\t", "\n", "\r", "\f", CharVT, CharFS, CharGS, CharRS, CharUS}
IsSpace(c) == c \in WhiteSpace

LowerChar(c) == IF c \in UpperSet THEN LowerOf[c] ELSE c

\* str.lower(), for ASCII text: the letters A to Z are the cased ones
Lower(s) == [k \in 1..Len(s) |-> LowerChar(s[k])]

\* s without the characters of ws at its two ends
StripOf(s, ws) ==
  IF \A k \in 1..Len(s) : s[k] \in ws THEN <<>>
  ELSE LET a == CHOOSE k \in 1..Len(s) :
                  s[k] \notin ws /\ \A j \in 1..(k - 1) : s[j] \in ws
           b == CHOOSE k \in 1..Len(s) :
                  s[k] \notin ws /\ \A j \in (k + 1)..Len(s) : s[j] \in ws
       IN SubSeq(s, a, b)

\* str.strip(): white space is removed at both ends
Strip(s) == StripOf(s, WhiteSpace)

\* w occurs in s at position i
StartsWithAt(s, i, w) ==
  /\ i >= 1
  /\ i + Len(w) - 1 <= Len(s)
  /\ SubSeq(s, i, i + Len(w) - 1) = w

\* the Python test "w in s"
Contains(s, w) == \E i \in 1..(Len(s) + 1) : StartsWithAt(s, i, w)

\* first position >= i that holds no digit (Len(s)+1 when the digits run to the end)
DigitsEnd(s, i) ==
  CHOOSE j \in i..(Len(s) + 1) :
    /\ \A k \in i..(j - 1) : IsDigit(s[k])
    /\ (j = Len(s) + 1 \/ ~IsDigit(s[j]))

\* first position >= i that holds no white space: the greedy \s* (\s matches
\* the characters of WhiteSpace)
SkipWs(s, i) ==
  CHOOSE j \in i..(Len(s) + 1) :
    /\ \A k \in i..(j - 1) : IsSpace(s[k])
    /\ (j = Len(s) + 1 \/ ~IsSpace(s[j]))

\* The pattern -?\d+\.?\d* matched greedily at position i: the position after
\* the match, or 0 when the pattern does not match at i.
NumMatchEnd(s, i) ==
  IF i < 1 \/ i > Len(s) THEN 0
  ELSE LET d0 == IF s[i] = "-" THEN i + 1 ELSE i
       IN IF d0 > Len(s) THEN 0
          ELSE IF ~IsDigit(s[d0]) THEN 0
          ELSE LET d1 == DigitsEnd(s, d0)
               IN IF d1 <= Len(s) /\ s[d1] = "."
                  THEN DigitsEnd(s, d1 + 1)
                  ELSE d1

\* value of a run of digits
RECURSIVE DigitsValue(_)
DigitsValue(ds) ==
  IF ds = <<>> THEN 0
  ELSE 10 * DigitsValue(SubSeq(ds, 1, Len(ds) - 1)) + DigitVal(ds[Len(ds)])

\* value, in units, of the digits after the decimal point (the first TolDigits
\* of them; the inputs of the model have no more)
FracValue(ds) ==
  LET n == IF Len(ds) < TolDigits THEN Len(ds) ELSE TolDigits
  IN DigitsValue(SubSeq(ds, 1, n)) * Pow10(TolDigits - n)

\* the digits of a numeral, its underscores left out
Digits(ds) == SelectSeq(ds, IsDigit)

\* digits with single underscores between them: "53", "5_3", "1_000"
DigitPart(ds) ==
  /\ ds # <<>>
  /\ IsDigit(ds[1])
  /\ IsDigit(ds[Len(ds)])
  /\ \A k \in 1..Len(ds) : IsDigit(ds[k]) \/ ds[k] = "_"
  /\ \A k \in 1..(Len(ds) - 1) : ~(ds[k] = "_" /\ ds[k + 1] = "_")

\* the white space float() skips around a numeral: that of the C locale,
\* which leaves out the four separators that str.strip and \s also take
FloatSpace == {" ", "\t", "\n", "\r", "\f", CharVT}

\* the numeral t without the white space around it
Numeral(t) == StripOf(t, FloatSpace)

\* the numeral t without the white space around it and without its sign
Unsigned(t) ==
  IF Numeral(t) # <<>> /\ Numeral(t)[1] \in {"-", "+"}
  THEN SubSeq(Numeral(t), 2, Len(Numeral(t)))
  ELSE Numeral(t)

\* the place of the point in b, Len(b) + 1 when it has none
PointOf(b) ==
  IF \E k \in 1..Len(b) : b[k] = "."
  THEN CHOOSE k \in 1..Len(b) : b[k] = "." /\ \A j \in 1..(k - 1) : b[j] # "."
  ELSE Len(b) + 1

\* float(t) accepts t: optional white space around an optional sign and
\* digits with an optional point ("5", "5.", "5.25", ".5"); the digits before
\* and after the point may hold single underscores between them ("1_000.5").
\* This is float alone: where the source writes float(part.strip()), the
\* callers apply Strip first.
FloatValid(t) ==
  LET b == Unsigned(t)
      p == PointOf(b)
      whole == SubSeq(b, 1, p - 1)
      frac == SubSeq(b, p + 1, Len(b))
  IN /\ whole # <<>> \/ frac # <<>>
     /\ whole = <<>> \/ DigitPart(whole)
     /\ frac = <<>> \/ DigitPart(frac)

\* float(t), for a t that float accepts
FloatValue(t) ==
  LET b == Unsigned(t)
      p == PointOf(b)
      v == DigitsValue(Digits(SubSeq(b, 1, p - 1))) * Scale
             + FracValue(Digits(SubSeq(b, p + 1, Len(b))))
  IN IF Numeral(t)[1] = "-" THEN -v ELSE v

\* decimal digits of a natural number
RECURSIVE NatDigits(_)
NatDigits(n) ==
  IF n < 10 THEN <<DigitChars[n + 1]>>
  ELSE NatDigits(n \div 10) \o <<DigitChars[(n % 10) + 1]>>

\* the digits after the point of repr(float): TolDigits digits, trailing
\* zeros dropped, at least one digit kept
RECURSIVE FixedDigits(_, _)
FixedDigits(f, width) ==
  IF width = 0 THEN <<>>
  ELSE FixedDigits(f \div 10, width - 1) \o <<DigitChars[(f % 10) + 1]>>

RECURSIVE FracDigits(_, _)
FracDigits(f, width) ==
  IF width = 1 THEN FixedDigits(f, 1)
  ELSE IF f % 10 = 0 THEN FracDigits(f \div 10, width - 1)
  ELSE FixedDigits(f, width)

\* the f-string rendering of a float: "5.0", "10.5", "-3.0"
FormatFloat(v) ==
  LET a == Abs(v)
  IN (IF v < 0 THEN <<"-">> ELSE <<>>)
       \o NatDigits(a \div Scale) \o <<".">> \o FracDigits(a % Scale, TolDigits)

\* ------------------------------------------------------ MathematicalEngine
\* re.findall of the number pattern from position i on: the matched texts
RECURSIVE FindAllFrom(_, _)
FindAllFrom(s, i) ==
  IF i > Len(s) THEN <<>>
  ELSE LET e == NumMatchEnd(s, i)
       IN IF e = 0 THEN FindAllFrom(s, i + 1)
          ELSE <<SubSeq(s, i, e - 1)>> \o FindAllFrom(s, e)

extract_numbers_from_text(text) ==
  LET matches == FindAllFrom(text, 1)
  IN [k \in 1..Len(matches) |-> FloatValue(matches[k])]

\* the dict `operations`, in insertion order
Operations ==
  << <<<<"a","d","d">>, "+">>,
     <<<<"p","l","u","s">>, "+">>,
     <<<<"s","u","m">>, "+">>,
     <<<<"a","d","d","i","t","i","o","n">>, "+">>,
     <<<<"s","u","b","t","r","a","c","t">>, "-">>,
     <<<<"m","i","n","u","s">>, "-">>,
     <<<<"d","i","f","f","e","r","e","n","c","e">>, "-">>,
     <<<<"m","u","l","t","i","p","l","y">>, "*">>,
     <<<<"t","i","m","e","s">>, "*">>,
     <<<<"p","r","o","d","u","c","t">>, "*">>,
     <<<<"m","u","l","t","i","p","l","i","c","a","t","i","o","n">>, "*">>,
     <<<<"d","i","v","i","d","e">>, "/">>,
     <<<<"d","i","v","i","d","e","d"," ","b","y">>, "/">>,
     <<<<"d","i","v","i","s","i","o","n">>, "/">> >>

\* first position at which w occurs in s, for a w that occurs in s
FirstOccurrence(s, w) ==
  CHOOSE i \in 1..(Len(s) + 1) :
    StartsWithAt(s, i, w) /\ \A j \in 1..(i - 1) : ~StartsWithAt(s, j, w)

\* FindOperationFrom choosing the keyword that occurs first in the text
FindOperationInTextOrder(expression, k) ==
  LET hits == {j \in k..Len(Operations) : Contains(expression, Operations[j][1])}
      first == CHOOSE j \in hits :
                 \A h \in hits :
                   \/ FirstOccurrence(expression, Operations[j][1])
                        < FirstOccurrence(expression, Operations[h][1])
                   \/ /\ FirstOccurrence(expression, Operations[j][1])
                           = FirstOccurrence(expression, Operations[h][1])
                      /\ j <= h
  IN IF hits = {} THEN None ELSE Operations[first][2]

\* the loop over operations.items() from entry k on: the operator of the first
\* keyword that occurs in the text, None when the loop ends without a break
RECURSIVE FindOperationFrom(_, _)
FindOperationFrom(expression, k) ==
  IF k > Len(Operations) THEN None
  ELSE IF Contains(expression, Operations[k][1]) THEN Operations[k][2]
  ELSE FindOperationFrom(expression, k + 1)

FindOperation(expression) == FindOperationFrom(expression, 1)

\* parse_math_expression returning no numbers when it builds no expression
ParseDropsNumbers(text) ==
  LET expression == Strip(Lower(text))
      operation == FindOperation(expression)
      numbers == extract_numbers_from_text(expression)
  IN IF operation # None /\ Len(numbers) >= 2
     THEN [expression |-> FormatFloat(numbers[1]) \o <<" ", operation, " ">>
                            \o FormatFloat(numbers[2]),
           numbers |-> SubSeq(numbers, 1, 2)]
     ELSE [expression |-> expression, numbers |-> <<>>]

\* parse_math_expression building the expression from the last two numbers
ParseTakesLastNumbers(text) ==
  LET expression == Strip(Lower(text))
      operation == FindOperation(expression)
      numbers == extract_numbers_from_text(expression)
  IN IF operation # None /\ Len(numbers) >= 2
     THEN [expression |-> FormatFloat(numbers[Len(numbers) - 1]) \o <<" ", operation, " ">>
                            \o FormatFloat(numbers[Len(numbers)]),
           numbers |-> SubSeq(numbers, Len(numbers) - 1, Len(numbers))]
     ELSE [expression |-> expression, numbers |-> numbers]

\* the pair (expression, numbers) that parse_math_expression returns
parse_math_expression(text) ==
  LET expression == Strip(Lower(text))
      operation == FindOperation(expression)
      numbers == extract_numbers_from_text(expression)
  IN IF operation # None /\ Len(numbers) >= 2
     THEN [expression |-> FormatFloat(numbers[1]) \o <<" ", operation, " ">>
                            \o FormatFloat(numbers[2]),
           numbers |-> SubSeq(numbers, 1, 2)]
     ELSE [expression |-> expression, numbers |-> numbers]

\* the first two elements of expression.split(c), for a c that occurs in it
SplitParts(expression, c) ==
  LET i == CHOOSE k \in 1..Len(expression) :
             expression[k] = c /\ \A j \in 1..(k - 1) : expression[j] # c
      rest == SubSeq(expression, i + 1, Len(expression))
      j == IF \E k \in 1..Len(rest) : rest[k] = c
           THEN CHOOSE k \in 1..Len(rest) :
                  rest[k] = c /\ \A m \in 1..(k - 1) : rest[m] # c
           ELSE Len(rest) + 1
  IN <<SubSeq(expression, 1, i - 1), SubSeq(rest, 1, j - 1)>>

HasChar(s, c) == \E k \in 1..Len(s) : s[k] = c

\* calculate_locally: None, or the exact value as a fraction of units
calculate_locally(expression) ==
  LET op == IF HasChar(expression, "+") THEN "+"
            ELSE IF HasChar(expression, "-") THEN "-"
            ELSE IF HasChar(expression, "*") THEN "*"
            ELSE IF HasChar(expression, "/") THEN "/"
            ELSE None
  IN IF op = None THEN NoLocal
     ELSE LET parts == SplitParts(expression, op)
          IN \* float(parts[i].strip()) raising ValueError is caught: return None
             IF ~FloatValid(Strip(parts[1])) \/ ~FloatValid(Strip(parts[2])) THEN NoLocal
             ELSE LET a == FloatValue(Strip(parts[1]))
                      b == FloatValue(Strip(parts[2]))
                  IN IF op = "+" THEN Local(a + b, 1)
                     ELSE IF op = "-" THEN Local(a - b, 1)
                     ELSE IF op = "*" THEN Product(a, b)
                     ELSE IF b = 0 THEN NoLocal
                     ELSE Quotient(a, b)

\* ------------------------------------------------------- ResponseProcessor
KwResult == <<"r","e","s","u","l","t">>
KwAnswer == <<"a","n","s","w","e","r">>
KwEquals == <<"e","q","u","a","l","s">>
KwEqual == <<"e","q","u","a","l">>
KwIs == <<"i","s">>
KwIsTheResult == <<"i","s"," ","t","h","e"," ","r","e","s","u","l","t">>
KwIsTheAnswer == <<"i","s"," ","t","h","e"," ","a","n","s","w","e","r">>
KwFinalAnswer == <<"f","i","n","a","l"," ","a","n","s","w","e","r">>

\* \s*:?\s* matched greedily from position k: the position after it
AfterSep(s, k) ==
  LET a == SkipWs(s, k)
      b == IF a <= Len(s) /\ s[a] = ":" THEN a + 1 ELSE a
  IN SkipWs(s, b)

\* (?:result|answer|equals?|is) at position i of the lower-cased text: the
\* position after the keyword, or 0
KeywordEnd(ls, i) ==
  IF StartsWithAt(ls, i, KwResult) THEN i + Len(KwResult)
  ELSE IF StartsWithAt(ls, i, KwAnswer) THEN i + Len(KwAnswer)
  ELSE IF StartsWithAt(ls, i, KwEquals) THEN i + Len(KwEquals)
  ELSE IF StartsWithAt(ls, i, KwEqual) THEN i + Len(KwEqual)
  ELSE IF StartsWithAt(ls, i, KwIs) THEN i + Len(KwIs)
  ELSE 0

\* Each PatternNAt(ls, i) is the start of group 1 when pattern N matches at
\* position i of the lower-cased text (re.IGNORECASE), and 0 when it does not.
Pattern1At(ls, i) ==
  LET k == KeywordEnd(ls, i)
  IN IF k = 0 THEN 0
     ELSE LET n == AfterSep(ls, k)
          IN IF NumMatchEnd(ls, n) = 0 THEN 0 ELSE n

Pattern2At(ls, i) ==
  LET e == NumMatchEnd(ls, i)
  IN IF e = 0 THEN 0
     ELSE LET j == SkipWs(ls, e)
          IN IF StartsWithAt(ls, j, KwIsTheResult) \/ StartsWithAt(ls, j, KwIsTheAnswer)
             THEN i ELSE 0

Pattern3At(ls, i) ==
  IF ~StartsWithAt(ls, i, KwFinalAnswer) THEN 0
  ELSE LET n == AfterSep(ls, i + Len(KwFinalAnswer))
       IN IF NumMatchEnd(ls, n) = 0 THEN 0 ELSE n

\* (-?\d+\.?\d*)$ : $ matches at the end and before a final newline
Pattern4At(ls, i) ==
  LET e == NumMatchEnd(ls, i)
  IN IF e = 0 THEN 0
     ELSE IF e = Len(ls) + 1 \/ (e = Len(ls) /\ ls[e] = "\n") THEN i
     ELSE 0

PatternAt(p, ls, i) ==
  IF p = 1 THEN Pattern1At(ls, i)
  ELSE IF p = 2 THEN Pattern2At(ls, i)
  ELSE IF p = 3 THEN Pattern3At(ls, i)
  ELSE Pattern4At(ls, i)

\* re.search from position i on: the start of group 1 of the leftmost match of
\* pattern p, or 0 when the pattern matches nowhere
RECURSIVE SearchFrom(_, _, _)
SearchFrom(p, ls, i) ==
  IF i > Len(ls) THEN 0
  ELSE IF PatternAt(p, ls, i) # 0 THEN PatternAt(p, ls, i)
  ELSE SearchFrom(p, ls, i + 1)

\* float(match.group(1)) for group 1 starting at n
GroupValue(ls, n) == FloatValue(SubSeq(ls, n, NumMatchEnd(ls, n) - 1))

NumPatterns == 4

\* LastNumber giving 0 for a text without a number
LastNumberOrZero(numbers) ==
  IF numbers # <<>> THEN Number(numbers[Len(numbers)]) ELSE Number(0)

\* the fallback: the last number found in the text, if any
LastNumber(numbers) ==
  IF numbers # <<>> THEN Number(numbers[Len(numbers)]) ELSE NoNumber

\* ExtractFrom trying the patterns from the last one to the first
RECURSIVE ExtractFromLastPattern(_, _, _)
ExtractFromLastPattern(p, ls, response_text) ==
  IF p > NumPatterns THEN LastNumber(extract_numbers_from_text(response_text))
  ELSE IF SearchFrom(NumPatterns + 1 - p, ls, 1) # 0
  THEN Number(GroupValue(ls, SearchFrom(NumPatterns + 1 - p, ls, 1)))
  ELSE ExtractFromLastPattern(p + 1, ls, response_text)

\* the loop over the patterns from pattern p on, then the fallback
RECURSIVE ExtractFrom(_, _, _)
ExtractFrom(p, ls, response_text) ==
  IF p > NumPatterns THEN LastNumber(extract_numbers_from_text(response_text))
  ELSE IF SearchFrom(p, ls, 1) # 0 THEN Number(GroupValue(ls, SearchFrom(p, ls, 1)))
  ELSE ExtractFrom(p + 1, ls, response_text)

extract_result_from_response(response_text) ==
  ExtractFrom(1, Lower(response_text), response_text)

\* -------------------------------------------------------------- ErrorHandler
\* diff <= bound, for diff = abs(ai_result - local_result) and an available
\* local result; bound in units
DiffAtMost(ai_result, local_result, bound) ==
  Abs(ai_result * local_result.den - local_result.num) <= bound * local_result.den

\* diff < bound
DiffBelow(ai_result, local_result, bound) ==
  Abs(ai_result * local_result.den - local_result.num) < bound * local_result.den

\* calculate_confidence with exclusive tier boundaries
ConfidenceExclusive(ai_result, local_result, tolerance) ==
  IF ~local_result.some THEN 5
  ELSE IF DiffBelow(ai_result, local_result, tolerance) THEN 10
  ELSE IF DiffBelow(ai_result, local_result, tolerance * 10) THEN 7
  ELSE IF DiffBelow(ai_result, local_result, tolerance * 100) THEN 4
  ELSE 1

\* calculate_confidence giving full confidence to an exact match only
ConfidenceExactMatch(ai_result, local_result, tolerance) ==
  IF ~local_result.some THEN 5
  ELSE IF DiffAtMost(ai_result, local_result, 0) THEN 10
  ELSE IF DiffAtMost(ai_result, local_result, tolerance * 10) THEN 7
  ELSE IF DiffAtMost(ai_result, local_result, tolerance * 100) THEN 4
  ELSE 1

\* the confidence in tenths: 10, 7, 4, 1, and 5 without a local result
calculate_confidence(ai_result, local_result, tolerance) ==
  IF ~local_result.some THEN 5
  ELSE IF DiffAtMost(ai_result, local_result, tolerance) THEN 10
  ELSE IF DiffAtMost(ai_result, local_result, tolerance * 10) THEN 7
  ELSE IF DiffAtMost(ai_result, local_result, tolerance * 100) THEN 4
  ELSE 1

\* the exception classes that reach the handler, with their base classes
ErrorKinds == {"RateLimitError", "AuthenticationError", "APIError", "ValueError", "Exception"}
IsInstance(kind, cls) ==
  \/ kind = cls
  \/ cls = "APIError" /\ kind \in {"RateLimitError", "AuthenticationError"}
  \/ cls = "Exception"

\* handle_api_error testing for the base class APIError first
HandlerTestsBaseClassFirst(error) ==
  IF IsInstance(error.kind, "APIError")
  THEN [fixed |-> "API error occurred: ", text |-> error.text]
  ELSE IF IsInstance(error.kind, "RateLimitError")
  THEN [fixed |-> "Rate limit exceeded. Please wait a moment and try again.", text |-> ""]
  ELSE IF IsInstance(error.kind, "AuthenticationError")
  THEN [fixed |-> "Authentication failed. Please check your API key.", text |-> ""]
  ELSE [fixed |-> "Unexpected error: ", text |-> error.text]

\* handle_api_error: the message, as its fixed part and the error text it embeds
handle_api_error(error) ==
  IF IsInstance(error.kind, "RateLimitError")
  THEN [fixed |-> "Rate limit exceeded. Please wait a moment and try again.", text |-> ""]
  ELSE IF IsInstance(error.kind, "AuthenticationError")
  THEN [fixed |-> "Authentication failed. Please check your API key.", text |-> ""]
  ELSE IF IsInstance(error.kind, "APIError")
  THEN [fixed |-> "API error occurred: ", text |-> error.text]
  ELSE [fixed |-> "Unexpected error: ", text |-> error.text]

\* --------------------------------------------------------- the agent's inputs
\* "add 5 and 3"
InAdd == <<"a","d","d"," ","5"," ","a","n","d"," ","3">>
\* "I want to add twenty and thirty"
InWords == <<"I"," ","w","a","n","t"," ","t","o"," ","a","d","d"," ","t","w","e","n","t","y"," ","a","n","d"," ","t","h","i","r","t","y">>
\* "what is 5 and 3\r\n"
InNoKeyword == <<"w","h","a","t"," ","i","s"," ","5"," ","a","n","d"," ","3","\r","\n">>
\* "Divide 1 by 3"
InThird == <<"D","i","v","i","d","e"," ","1"," ","b","y"," ","3">>
\* "divide 8 by 0"
InByZero == <<"d","i","v","i","d","e"," ","8"," ","b","y"," ","0">>
\* "times 7"
InOneNumber == <<"t","i","m","e","s"," ","7">>
\* "sum of 0 and 0"
InZero == <<"s","u","m"," ","o","f"," ","0"," ","a","n","d"," ","0">>
\* "5_3\x1c+2": no keyword, and an expression that calculate_locally
\* evaluates, to 55.0: the separator after "5_3" is stripped before float
InUnderscore == <<"5","_","3",CharFS,"+","2">>
UserInputs ==
  {InAdd, InWords, InNoKeyword, InThird, InByZero, InOneNumber, InZero, InUnderscore}

\* "Let's see... 5 + 3 is 8"
OutIs8 == <<"L","e","t","'","s"," ","s","e","e",".",".","."," ","5"," ","+"," ","3"," ","i","s"," ","8">>
\* "no idea"
OutNoNumber == <<"n","o"," ","i","d","e","a">>
\* "The answer:\r\n0.0001"
OutAtTol == <<"T","h","e"," ","a","n","s","w","e","r",":","\r","\n","0",".","0","0","0","1">>
\* "result 0.3333"
OutThird == <<"r","e","s","u","l","t"," ","0",".","3","3","3","3">>
\* "8.5 apples"
OutFar == <<"8",".","5"," ","a","p","p","l","e","s">>
Responses == {OutIs8, OutNoNumber, OutAtTol, OutThird, OutFar}

\* what the collaborator may raise
CollaboratorErrors == {"RateLimitError", "AuthenticationError", "APIError", "Exception"}

MsgTooFewNumbers == "Please provide at least two numbers for calculation"
MsgNoResult == "Could not extract result from AI response"
MsgCollaborator == "collaborator failure"

\* ------------------------------------------------------ ConversationManager
Min(a, b) == IF a < b THEN a ELSE b
Max(a, b) == IF a > b THEN a ELSE b

\* the Python slice seq[start:]
SliceFrom(seq, start) ==
  LET n == Len(seq)
      st == IF start < 0 THEN Max(n + start, 0) ELSE Min(start, n)
  IN SubSeq(seq, st + 1, n)

\* add_message: the message list after appending and trimming
add_message(msgs, cap, message) ==
  LET appended == Append(msgs, message)
  IN IF Len(appended) > cap THEN SliceFrom(appended, -cap) ELSE appended

\* get_context
get_context(msgs) == [k \in 1..Len(msgs) |-> [role |-> msgs[k].role, content |-> msgs[k].content]]

Message(role, content) == [role |-> role, content |-> content]

\* ------------------------------------------------------------------ state
VARIABLES
  state,                \* AIMathAgent.state
  max_history,          \* ConversationManager.max_history
  messages,             \* ConversationManager.messages
  calculation_history,  \* AIMathAgent.calculation_history
  pc,                   \* per call slot: "idle", or "awaiting" the collaborator
  frame,                \* per call slot: the locals of the suspended call
  last,                 \* the call that handed control back most recently
  inserted,             \* every message ever passed to add_message, in order
  started,              \* process_request calls started
  completed,            \* process_request calls that reached Completed
  probe                 \* input and output of a function applied on its own

vars == <<state, max_history, messages, calculation_history, pc, frame, last,
          inserted, started, completed, probe>>

\* call slots: calls that may be in flight on one agent
NumSlots == 2
Slots == 1..NumSlots

NoEntry == [expression |-> <<>>, result |-> 0, confidence |-> 0,
            verification_passed |-> FALSE, tokens_used |-> 0]
NoError == [fixed |-> "", text |-> ""]
NoCause == [kind |-> "", text |-> ""]
NoFrame == [input |-> <<>>, expression |-> <<>>, numbers |-> <<>>, request |-> <<>>,
            trace |-> <<>>, entryState |-> "idle", historyBefore |-> <<>>]
NoLast == [outcome |-> "none", input |-> <<>>, expression |-> <<>>, request |-> <<>>,
           collaborator |-> "not_called", response |-> <<>>, trace |-> <<>>,
           entryState |-> "idle", exitState |-> "idle", result |-> NoEntry,
           error |-> NoError, raises |-> None, cause |-> NoCause,
           historyBefore |-> <<>>, historyAfter |-> <<>>, messagesAfter |-> <<>>]
NoProbe == [fn |-> "none"]

\* -------------------------------------------------------------- AIMathAgent
UserMessage(user_input) == Message("user", user_input)

\* _estimate_tokens_used
estimate_tokens_used(response_text) == Len(response_text) \div 4

\* _format_response, up to the end of its first line: "I calculated E = R"
format_response(entry) ==
  <<"I", " ", "c", "a", "l", "c", "u", "l", "a", "t", "e", "d", " ">>
    \o entry.expression \o <<" ", "=", " ">> \o FormatFloat(entry.result)

\* TooFewNumbers with the bound off by one
TooFewNumbersOffByOne(numbers) == Len(numbers) < 1

\* the test of line 321
TooFewNumbers(numbers) == Len(numbers) < 2

\* verification_passed with an inclusive bound
VerificationInclusive(result, local_result) ==
  /\ local_result.some
  /\ Abs(result * local_result.den - local_result.num)
       <= VerificationTolerance * local_result.den

\* local_result is not None and abs(result - local_result) < 0.0001
verification_passed(result, local_result) ==
  /\ local_result.some
  /\ Abs(result * local_result.den - local_result.num)
       < VerificationTolerance * local_result.den

\* _get_ai_calculation up to the collaborator call: the input it sends
CollaboratorInput(msgs, expression, numbers) ==
  [context |-> SliceFrom(get_context(msgs), -ContextWindow),
   expression |-> expression,
   numbers |-> numbers]

\* ExceptClause without the assignment of the state
ExceptClauseKeepsState(kind, text) ==
  [state |-> "reasoning",
   error |-> handle_api_error([kind |-> kind, text |-> text]),
   raises |-> "ValueError",
   cause |-> [kind |-> kind, text |-> text]]

\* ExceptClause putting the agent back to Idle
ExceptClauseResetsToIdle(kind, text) ==
  [state |-> "idle",
   error |-> handle_api_error([kind |-> kind, text |-> text]),
   raises |-> "ValueError",
   cause |-> [kind |-> kind, text |-> text]]

\* the except clause for the exception e of class kind with str(e) = text: the
\* state it sets, the message of the ValueError it raises, and e itself
ExceptClause(kind, text) ==
  [state |-> "error",
   error |-> handle_api_error([kind |-> kind, text |-> text]),
   raises |-> "ValueError",
   cause |-> [kind |-> kind, text |-> text]]

\* lines 321-326: the test of the parsed numbers; the states assigned from the
\* entry of process_request to the collaborator call or to the raise
Validate(parsed, msgs1) ==
  IF TooFewNumbers(parsed.numbers)
  THEN [raised |-> TRUE,
        states |-> <<"processing", ExceptClause("ValueError", MsgTooFewNumbers).state>>,
        error |-> ExceptClause("ValueError", MsgTooFewNumbers).error,
        raises |-> ExceptClause("ValueError", MsgTooFewNumbers).raises,
        cause |-> ExceptClause("ValueError", MsgTooFewNumbers).cause,
        messages |-> msgs1,
        expression |-> parsed.expression,
        numbers |-> parsed.numbers,
        request |-> <<>>]
  ELSE [raised |-> FALSE,
        states |-> <<"processing", "reasoning">>,
        error |-> NoError,
        raises |-> None,
        cause |-> NoCause,
        messages |-> msgs1,
        expression |-> parsed.expression,
        numbers |-> parsed.numbers,
        request |-> <<CollaboratorInput(msgs1, parsed.expression, parsed.numbers)>>]

\* process_request from its first line to the collaborator call: the states it
\* assigns in order, the message list it leaves, and whether it raised
BeforeCollaborator(user_input, msgs, cap) ==
  Validate(parse_math_expression(user_input),
           add_message(msgs, cap, UserMessage(user_input)))

\* MakeResult reporting the locally computed value when there is one
MakeResultReportsLocal(expression, result, local_result, response_text) ==
  [expression |-> expression,
   result |-> IF local_result.some THEN local_result.num \div local_result.den
              ELSE result,
   confidence |-> calculate_confidence(result, local_result, Tolerance),
   verification_passed |-> verification_passed(result, local_result),
   tokens_used |-> estimate_tokens_used(response_text)]

\* lines 343-352: the CalculationResult
MakeResult(expression, result, local_result, response_text) ==
  [expression |-> expression,
   result |-> result,
   confidence |-> calculate_confidence(result, local_result, Tolerance),
   verification_passed |-> verification_passed(result, local_result),
   tokens_used |-> estimate_tokens_used(response_text)]

\* Record without the assignment of Verifying
RecordSkipsVerifying(entry, reply, history, msgs, cap) ==
  [raised |-> FALSE,
   states |-> <<"completed">>,
   error |-> NoError,
   raises |-> None,
   cause |-> NoCause,
   entry |-> entry,
   history |-> Append(history, entry),
   messages |-> add_message(msgs, cap, reply),
   added |-> <<reply>>]

\* Record without the append to the history
RecordForgetsHistory(entry, reply, history, msgs, cap) ==
  [raised |-> FALSE,
   states |-> <<"verifying", "completed">>,
   error |-> NoError,
   raises |-> None,
   cause |-> NoCause,
   entry |-> entry,
   history |-> history,
   messages |-> add_message(msgs, cap, reply),
   added |-> <<reply>>]

\* lines 354-364: record the result, reply, complete
Record(entry, reply, history, msgs, cap) ==
  [raised |-> FALSE,
   states |-> <<"verifying", "completed">>,
   error |-> NoError,
   raises |-> None,
   cause |-> NoCause,
   entry |-> entry,
   history |-> Append(history, entry),
   messages |-> add_message(msgs, cap, reply),
   added |-> <<reply>>]

Complete(entry, history, msgs, cap) ==
  Record(entry, Message("assistant", format_response(entry)), history, msgs, cap)

\* Interpret with the history entry appended before the result is tested
InterpretAppendsFirst(result, expression, response_text, history, msgs, cap) ==
  IF ~result.some
  THEN [raised |-> TRUE,
        states |-> <<ExceptClause("ValueError", MsgNoResult).state>>,
        error |-> ExceptClause("ValueError", MsgNoResult).error,
        raises |-> ExceptClause("ValueError", MsgNoResult).raises,
        cause |-> ExceptClause("ValueError", MsgNoResult).cause,
        entry |-> NoEntry,
        history |-> Append(history, NoEntry),
        messages |-> msgs,
        added |-> <<>>]
  ELSE Complete(MakeResult(expression, result.val, calculate_locally(expression),
                           response_text),
                history, msgs, cap)

\* Interpret with Verifying assigned before the result is tested
InterpretInVerifying(result, expression, response_text, history, msgs, cap) ==
  IF ~result.some
  THEN [raised |-> TRUE,
        states |-> <<"verifying", ExceptClause("ValueError", MsgNoResult).state>>,
        error |-> ExceptClause("ValueError", MsgNoResult).error,
        raises |-> ExceptClause("ValueError", MsgNoResult).raises,
        cause |-> ExceptClause("ValueError", MsgNoResult).cause,
        entry |-> NoEntry,
        history |-> history,
        messages |-> msgs,
        added |-> <<>>]
  ELSE Complete(MakeResult(expression, result.val, calculate_locally(expression),
                           response_text),
                history, msgs, cap)

\* Interpret raising when the result is not verified against the local one
InterpretRejectsMismatch(result, expression, response_text, history, msgs, cap) ==
  IF ~result.some \/ ~verification_passed(result.val, calculate_locally(expression))
  THEN [raised |-> TRUE,
        states |-> <<ExceptClause("ValueError", MsgNoResult).state>>,
        error |-> ExceptClause("ValueError", MsgNoResult).error,
        raises |-> ExceptClause("ValueError", MsgNoResult).raises,
        cause |-> ExceptClause("ValueError", MsgNoResult).cause,
        entry |-> NoEntry,
        history |-> history,
        messages |-> msgs,
        added |-> <<>>]
  ELSE Complete(MakeResult(expression, result.val, calculate_locally(expression),
                           response_text),
                history, msgs, cap)

\* Interpret taking the user message out of the memory when it raises
InterpretRollsBack(result, expression, response_text, history, msgs, cap) ==
  IF ~result.some
  THEN [raised |-> TRUE,
        states |-> <<ExceptClause("ValueError", MsgNoResult).state>>,
        error |-> ExceptClause("ValueError", MsgNoResult).error,
        raises |-> ExceptClause("ValueError", MsgNoResult).raises,
        cause |-> ExceptClause("ValueError", MsgNoResult).cause,
        entry |-> NoEntry,
        history |-> history,
        messages |-> SubSeq(msgs, 1, Len(msgs) - 1),
        added |-> <<>>]
  ELSE Complete(MakeResult(expression, result.val, calculate_locally(expression),
                           response_text),
                history, msgs, cap)

\* lines 332-364: the test of the extracted result, and what follows it
Interpret(result, expression, response_text, history, msgs, cap) ==
  IF ~result.some
  THEN [raised |-> TRUE,
        states |-> <<ExceptClause("ValueError", MsgNoResult).state>>,
        error |-> ExceptClause("ValueError", MsgNoResult).error,
        raises |-> ExceptClause("ValueError", MsgNoResult).raises,
        cause |-> ExceptClause("ValueError", MsgNoResult).cause,
        entry |-> NoEntry,
        history |-> history,
        messages |-> msgs,
        added |-> <<>>]
  ELSE Complete(MakeResult(expression, result.val, calculate_locally(expression),
                           response_text),
                history, msgs, cap)

\* process_request from the return of the collaborator to its end: the states
\* it assigns in order, the history and the message list it leaves
AfterCollaborator(expression, response_text, history, msgs, cap) ==
  Interpret(extract_result_from_response(response_text), expression, response_text,
            history, msgs, cap)

NoCallInFlight == \A s \in Slots : pc[s] = "idle"

\* AIMathAgent.__init__
InitAgent ==
  /\ state = "idle"
  /\ max_history = DefaultMaxHistory
  /\ messages = <<>>
  /\ calculation_history = <<>>
  /\ pc = [s \in Slots |-> "idle"]
  /\ frame = [s \in Slots |-> NoFrame]
  /\ last = NoLast
  /\ inserted = <<>>
  /\ started = 0
  /\ completed = 0

Init == InitAgent /\ probe = NoProbe

\* Enter with an agent that stays failed: after a call ended in Error every
\* later call raises before it reaches the collaborator
EnterLatchesError(s, user_input, b) ==
  /\ state' = b.states[Len(b.states)]
  /\ messages' = b.messages
  /\ inserted' = Append(inserted, UserMessage(user_input))
  /\ started' = started + 1
  /\ IF b.raised \/ state = "error"
     THEN /\ last' = [outcome |-> "raised", input |-> user_input,
                      expression |-> b.expression, request |-> b.request,
                      collaborator |-> "not_called", response |-> <<>>,
                      trace |-> b.states, entryState |-> state,
                      exitState |-> b.states[Len(b.states)], result |-> NoEntry,
                      error |-> b.error, raises |-> b.raises, cause |-> b.cause,
                      historyBefore |-> calculation_history,
                      historyAfter |-> calculation_history,
                      messagesAfter |-> b.messages]
          /\ UNCHANGED <<pc, frame>>
     ELSE /\ pc' = [pc EXCEPT ![s] = "awaiting"]
          /\ frame' = [frame EXCEPT ![s] =
                        [input |-> user_input, expression |-> b.expression,
                         numbers |-> b.numbers, request |-> b.request,
                         trace |-> b.states, entryState |-> state,
                         historyBefore |-> calculation_history]]
          /\ UNCHANGED last

\* the effect of the first part of a call, b, on the agent
Enter(s, user_input, b) ==
  /\ state' = b.states[Len(b.states)]
  /\ messages' = b.messages
  /\ inserted' = Append(inserted, UserMessage(user_input))
  /\ started' = started + 1
  /\ IF b.raised
     THEN /\ last' = [outcome |-> "raised", input |-> user_input,
                      expression |-> b.expression, request |-> b.request,
                      collaborator |-> "not_called", response |-> <<>>,
                      trace |-> b.states, entryState |-> state,
                      exitState |-> b.states[Len(b.states)], result |-> NoEntry,
                      error |-> b.error, raises |-> b.raises, cause |-> b.cause,
                      historyBefore |-> calculation_history,
                      historyAfter |-> calculation_history,
                      messagesAfter |-> b.messages]
          /\ UNCHANGED <<pc, frame>>
     ELSE /\ pc' = [pc EXCEPT ![s] = "awaiting"]
          /\ frame' = [frame EXCEPT ![s] =
                        [input |-> user_input, expression |-> b.expression,
                         numbers |-> b.numbers, request |-> b.request,
                         trace |-> b.states, entryState |-> state,
                         historyBefore |-> calculation_history]]
          /\ UNCHANGED last

\* A call of process_request(user_input) runs to the collaborator call, or
\* to the raise of the validation failure; at most limit calls are started.
CallWithin(s, user_input, limit) ==
  /\ pc[s] = "idle"
  /\ started < limit
  /\ \E b \in {BeforeCollaborator(user_input, messages, max_history)} :
       Enter(s, user_input, b)
  /\ probe' = NoProbe
  /\ UNCHANGED <<max_history, calculation_history, completed>>

Call(s, user_input) == CallWithin(s, user_input, MaxCalls)

\* Calls made one after the other: the caller awaits each call.
SequentialCall(s, user_input) == NoCallInFlight /\ Call(s, user_input)

\* the effect of the second part of a call, a, on the agent
Leave(s, response_text, a) ==
  /\ state' = a.states[Len(a.states)]
  /\ calculation_history' = a.history
  /\ messages' = a.messages
  /\ inserted' = inserted \o a.added
  /\ completed' = IF a.raised THEN completed ELSE completed + 1
  /\ last' = [outcome |-> IF a.raised THEN "raised" ELSE "returned",
              input |-> frame[s].input, expression |-> frame[s].expression,
              request |-> frame[s].request,
              collaborator |-> "returned", response |-> response_text,
              trace |-> frame[s].trace \o a.states,
              entryState |-> frame[s].entryState,
              exitState |-> a.states[Len(a.states)], result |-> a.entry,
              error |-> a.error, raises |-> a.raises, cause |-> a.cause,
              historyBefore |-> frame[s].historyBefore,
              historyAfter |-> a.history,
              messagesAfter |-> a.messages]

\* The collaborator returns response_text and the call runs to its end.
CollaboratorReturns(s, response_text) ==
  /\ pc[s] = "awaiting"
  /\ \E a \in {AfterCollaborator(frame[s].expression, response_text,
                                    calculation_history, messages, max_history)} :
       Leave(s, response_text, a)
  /\ pc' = [pc EXCEPT ![s] = "idle"]
  /\ frame' = [frame EXCEPT ![s] = NoFrame]
  /\ UNCHANGED <<max_history, started, probe>>

\* CollaboratorRaises with an exception that the except clause does not catch:
\* the call ends with the state left as it was
CollaboratorRaisesUncaught(s, kind) ==
  /\ pc[s] = "awaiting"
  /\ last' = [outcome |-> "raised",
              input |-> frame[s].input, expression |-> frame[s].expression,
              request |-> frame[s].request,
              collaborator |-> "raised", response |-> <<>>,
              trace |-> frame[s].trace,
              entryState |-> frame[s].entryState,
              exitState |-> state, result |-> NoEntry,
              error |-> [fixed |-> "", text |-> MsgCollaborator],
              raises |-> kind, cause |-> NoCause,
              historyBefore |-> frame[s].historyBefore,
              historyAfter |-> calculation_history,
              messagesAfter |-> messages]
  /\ pc' = [pc EXCEPT ![s] = "idle"]
  /\ frame' = [frame EXCEPT ![s] = NoFrame]
  /\ UNCHANGED <<state, max_history, messages, calculation_history, inserted, started,
                 completed, probe>>

\* The collaborator raises an exception of class kind; the except clause runs.
CollaboratorRaises(s, kind) ==
  /\ pc[s] = "awaiting"
  /\ LET x == ExceptClause(kind, MsgCollaborator)
     IN /\ state' = x.state
        /\ last' = [outcome |-> "raised",
                    input |-> frame[s].input, expression |-> frame[s].expression,
                    request |-> frame[s].request,
                    collaborator |-> "raised", response |-> <<>>,
                    trace |-> Append(frame[s].trace, x.state),
                    entryState |-> frame[s].entryState,
                    exitState |-> x.state, result |-> NoEntry,
                    error |-> x.error, raises |-> x.raises, cause |-> x.cause,
                    historyBefore |-> frame[s].historyBefore,
                    historyAfter |-> calculation_history,
                    messagesAfter |-> messages]
  /\ pc' = [pc EXCEPT ![s] = "idle"]
  /\ frame' = [frame EXCEPT ![s] = NoFrame]
  /\ UNCHANGED <<max_history, messages, calculation_history, inserted, started,
                 completed, probe>>

\* sum(r.tokens_used for r in history)
RECURSIVE SumTokens(_)
SumTokens(history) ==
  IF history = <<>> THEN 0
  ELSE SumTokens(SubSeq(history, 1, Len(history) - 1)) + history[Len(history)].tokens_used

\* sum(r.confidence for r in history), in tenths
RECURSIVE SumConfidence(_)
SumConfidence(history) ==
  IF history = <<>> THEN 0
  ELSE SumConfidence(SubSeq(history, 1, Len(history) - 1)) + history[Len(history)].confidence

\* sum(1 for r in history if r.verification_passed)
CountVerified(history) ==
  Cardinality({k \in 1..Len(history) : history[k].verification_passed})

\* n / d if the history is not empty else 0, as a fraction in lowest terms
RatioOrZero(n, d) ==
  IF d = 0 THEN [num |-> 0, den |-> 1]
  ELSE [num |-> n \div Gcd(n, d), den |-> d \div Gcd(n, d)]

\* get_session_stats counting the verified entries as the calculations
SessionStatsCountsVerified(history, current_state) ==
  [total_calculations |-> CountVerified(history),
   total_tokens_used |-> SumTokens(history),
   average_confidence |-> RatioOrZero(SumConfidence(history), Len(history)),
   verification_rate |-> RatioOrZero(CountVerified(history), Len(history)),
   current_state |-> current_state]

\* the dict that get_session_stats returns (average_confidence in tenths)
get_session_stats(history, current_state) ==
  [total_calculations |-> Len(history),
   total_tokens_used |-> SumTokens(history),
   average_confidence |-> RatioOrZero(SumConfidence(history), Len(history)),
   verification_rate |-> RatioOrZero(CountVerified(history), Len(history)),
   current_state |-> current_state]

\* the list that export_history dumps to the file: one dict per entry
export_history(history) ==
  [k \in 1..Len(history) |->
     [expression |-> history[k].expression,
      result |-> history[k].result,
      confidence |-> history[k].confidence,
      verification_passed |-> history[k].verification_passed,
      tokens_used |-> history[k].tokens_used]]

\* The caller asks for the statistics of the session between two requests.
GetSessionStats ==
  /\ NoCallInFlight
  /\ probe' = [fn |-> "get_session_stats",
               stats |-> get_session_stats(calculation_history, state)]
  /\ UNCHANGED <<state, max_history, messages, calculation_history, pc, frame, last,
                 inserted, started, completed>>

\* ExportHistory taking the entries out of the history as it writes them
ExportHistoryDrains ==
  /\ NoCallInFlight
  /\ probe' = [fn |-> "export_history", file |-> export_history(calculation_history)]
  /\ calculation_history' = <<>>
  /\ UNCHANGED <<state, max_history, messages, pc, frame, last,
                 inserted, started, completed>>

\* The caller exports the history to a file between two requests.
ExportHistory ==
  /\ NoCallInFlight
  /\ probe' = [fn |-> "export_history", file |-> export_history(calculation_history)]
  /\ UNCHANGED <<state, max_history, messages, calculation_history, pc, frame, last,
                 inserted, started, completed>>

Next ==
  \/ \E s \in Slots, user_input \in UserInputs : SequentialCall(s, user_input)
  \/ \E s \in Slots, response_text \in Responses : CollaboratorReturns(s, response_text)
  \/ \E s \in Slots, kind \in CollaboratorErrors : CollaboratorRaises(s, kind)
  \/ GetSessionStats
  \/ ExportHistory

Spec == Init /\ [][Next]_vars

\* --------------------------- calls created together on one event loop
\* What the collaborator does when it is called: it returns a text or raises.
Replies ==
  {[raises |-> FALSE, kind |-> None, text |-> t] : t \in Responses}
    \cup {[raises |-> TRUE, kind |-> k, text |-> <<>>] : k \in CollaboratorErrors}

\* process_request from the collaborator call on, for the first part b of the
\* call and the reply of the collaborator
AfterReply(b, reply, history, cap) ==
  IF b.raised
  THEN [raised |-> TRUE, states |-> <<>>, error |-> b.error, raises |-> b.raises,
        cause |-> b.cause, entry |-> NoEntry, history |-> history,
        messages |-> b.messages, added |-> <<>>]
  ELSE IF reply.raises
  THEN [raised |-> TRUE,
        states |-> <<ExceptClause(reply.kind, MsgCollaborator).state>>,
        error |-> ExceptClause(reply.kind, MsgCollaborator).error,
        raises |-> ExceptClause(reply.kind, MsgCollaborator).raises,
        cause |-> ExceptClause(reply.kind, MsgCollaborator).cause,
        entry |-> NoEntry, history |-> history,
        messages |-> b.messages, added |-> <<>>]
  ELSE AfterCollaborator(b.expression, reply.text, history, b.messages, cap)

\* the effect on the agent of a call that runs from its first line to its end
\* with first part b and second part a
RunThrough(s, reply, b, a) ==
  /\ state' = (b.states \o a.states)[Len(b.states \o a.states)]
  /\ calculation_history' = a.history
  /\ messages' = a.messages
  /\ inserted' = Append(inserted, UserMessage(frame[s].input)) \o a.added
  /\ started' = started + 1
  /\ completed' = IF a.raised THEN completed ELSE completed + 1
  /\ last' = [outcome |-> IF a.raised THEN "raised" ELSE "returned",
              input |-> frame[s].input, expression |-> b.expression,
              request |-> b.request,
              collaborator |-> IF b.raised THEN "not_called"
                               ELSE IF reply.raises THEN "raised" ELSE "returned",
              response |-> IF b.raised \/ reply.raises THEN <<>> ELSE reply.text,
              trace |-> b.states \o a.states,
              entryState |-> state,
              exitState |-> (b.states \o a.states)[Len(b.states \o a.states)],
              result |-> a.entry,
              error |-> a.error, raises |-> a.raises, cause |-> a.cause,
              historyBefore |-> calculation_history,
              historyAfter |-> a.history,
              messagesAfter |-> a.messages]

\* The caller creates the coroutine process_request(user_input) as a task of
\* its event loop (asyncio.gather, asyncio.create_task) without awaiting it.
CreateTask(s, user_input) ==
  /\ pc[s] = "idle"
  /\ started + Cardinality({t \in Slots : pc[t] # "idle"}) < MaxCalls
  /\ pc' = [pc EXCEPT ![s] = "scheduled"]
  /\ frame' = [frame EXCEPT ![s] = [NoFrame EXCEPT !.input = user_input]]
  /\ UNCHANGED <<state, max_history, messages, calculation_history, last, inserted,
                 started, completed, probe>>

\* The event loop runs a task.  _get_ai_calculation calls the synchronous
\* client (self.client.responses.create is not awaited) and holds no other
\* await, so the coroutine never yields to the loop: the call runs from its
\* first line to its return or raise before any other task runs.
RunTask(s, reply) ==
  /\ pc[s] = "scheduled"
  /\ \E b \in {BeforeCollaborator(frame[s].input, messages, max_history)} :
       \E a \in {AfterReply(b, reply, calculation_history, max_history)} :
         RunThrough(s, reply, b, a)
  /\ pc' = [pc EXCEPT ![s] = "idle"]
  /\ frame' = [frame EXCEPT ![s] = NoFrame]
  /\ UNCHANGED <<max_history, probe>>

NextOverlapped ==
  \/ \E s \in Slots, user_input \in UserInputs : CreateTask(s, user_input)
  \/ \E s \in Slots, reply \in Replies : RunTask(s, reply)

SpecOverlapped == Init /\ [][NextOverlapped]_vars

\* ------------------------------------------- a long session of few requests
\* Requests, responses and failures of a session long enough for the memory
\* to outgrow the context window.
SessionInputs == {InAdd, InOneNumber}
SessionResponses == {OutIs8}
SessionErrors == {"APIError"}

SessionCall(s, user_input) ==
  NoCallInFlight /\ CallWithin(s, user_input, MaxSessionCalls)

NextSession ==
  \/ \E s \in Slots, user_input \in SessionInputs : SessionCall(s, user_input)
  \/ \E s \in Slots, response_text \in SessionResponses :
       CollaboratorReturns(s, response_text)
  \/ \E s \in Slots, kind \in SessionErrors : CollaboratorRaises(s, kind)

SpecSession == Init /\ [][NextSession]_vars

\* ------------------------------------------- a collaborator that responds
\* what the collaborator of a session returns: a text with a number
\* (OutIs8), or one without (OutNoNumber)
ResponsiveResponses == SessionResponses \cup {OutNoNumber}

\* The collaborator answers the call suspended in slot s: it returns a text or
\* raises.
CollaboratorResponds(s) ==
  \/ \E response_text \in ResponsiveResponses : CollaboratorReturns(s, response_text)
  \/ \E kind \in SessionErrors : CollaboratorRaises(s, kind)

NextResponsive ==
  \/ \E s \in Slots, user_input \in SessionInputs : SessionCall(s, user_input)
  \/ \E s \in Slots, response_text \in ResponsiveResponses :
       CollaboratorReturns(s, response_text)
  \/ \E s \in Slots, kind \in SessionErrors : CollaboratorRaises(s, kind)

\* A session with a collaborator that answers every call made to it.  The
\* code sets no deadline of its own (lines 396-403), so that the collaborator
\* answers is an assumption on the collaborator; without the fairness
\* condition a call may wait for ever.
SpecResponsive ==
  Init /\ [][NextResponsive]_vars /\ \A s \in Slots : WF_vars(CollaboratorResponds(s))

\* ----------------------------------- a ConversationManager used on its own
MemoryContents == {<<"a">>, <<"b">>}
MemoryRoles == {"user", "assistant"}

\* ConversationManager(max_history) with a capacity from 0 to MaxCap
InitMemory ==
  /\ state = "idle"
  /\ max_history \in 0..MaxCap
  /\ messages = <<>>
  /\ calculation_history = <<>>
  /\ pc = [s \in Slots |-> "idle"]
  /\ frame = [s \in Slots |-> NoFrame]
  /\ last = NoLast
  /\ inserted = <<>>
  /\ started = 0
  /\ completed = 0
  /\ probe = NoProbe

\* add_message(role, content)
MemoryAdd(role, content) ==
  /\ Len(inserted) < max_history + MaxExtra
  /\ messages' = add_message(messages, max_history, Message(role, content))
  /\ inserted' = Append(inserted, Message(role, content))
  /\ UNCHANGED <<state, max_history, calculation_history, pc, frame, last,
                 started, completed, probe>>

NextMemory == \E role \in MemoryRoles, content \in MemoryContents : MemoryAdd(role, content)

SpecMemory == InitMemory /\ [][NextMemory]_vars

\* ------------------------------------- calculate_confidence applied on its own
\* distances, in units, around the tier boundaries of the tolerances tried
ProbeOffsets == {0, 1, 2, 3, 9, 10, 11, 19, 20, 21, 99, 100, 101, 199, 200, 201, 1000}
ProbeTolerances == {Tolerance, 2 * Tolerance}
\* 0, 1/3 and -2/3, and no local result
ProbeLocals == {Local(0, 1), Fraction(Scale, 3), Fraction(-2 * Scale, 3), NoLocal}
ProbeResults ==
  UNION {{d, -d, Scale \div 3 + d, Scale \div 3 - d} : d \in ProbeOffsets}

InitConfidence ==
  /\ InitAgent
  /\ probe \in [fn : {"calculate_confidence"}, ai_result : ProbeResults,
                 local_result : ProbeLocals, tolerance : ProbeTolerances,
                 done : {FALSE}, confidence : {0}]

Score ==
  /\ probe.fn = "calculate_confidence"
  /\ ~probe.done
  /\ probe' = [probe EXCEPT
                 !.done = TRUE,
                 !.confidence = calculate_confidence(probe.ai_result, probe.local_result,
                                                     probe.tolerance)]
  /\ UNCHANGED <<state, max_history, messages, calculation_history, pc, frame, last,
                 inserted, started, completed>>

NextConfidence == Score

SpecConfidence == InitConfidence /\ [][NextConfidence]_vars

\* ------------------------------- the MathematicalEngine applied on its own
\* Words of a request: the text, and for an operation keyword its operator and
\* the place of the first entry of `operations` that occurs in it (0: none).
\* "add", "minus", "Times", "divided by", "and"
EngineWords ==
  { [text |-> <<"a","d","d">>, op |-> "+", entry |-> 1],
    [text |-> <<"m","i","n","u","s">>, op |-> "-", entry |-> 6],
    [text |-> <<"T","i","m","e","s">>, op |-> "*", entry |-> 9],
    [text |-> <<"d","i","v","i","d","e","d"," ","b","y">>, op |-> "/", entry |-> 12],
    [text |-> <<"a","n","d">>, op |-> None, entry |-> 0] }

\* Numeric literals of a request: the text, its value in units, and the
\* rendering of that float in an f-string.  "5", "-3", "0", "2.5"
EngineNumbers ==
  { [text |-> <<"5">>, val |-> 5 * Scale, repr |-> <<"5",".","0">>],
    [text |-> <<"-","3">>, val |-> -3 * Scale, repr |-> <<"-","3",".","0">>],
    [text |-> <<"0">>, val |-> 0, repr |-> <<"0",".","0">>],
    [text |-> <<"2",".","5">>, val |-> (5 * Scale) \div 2, repr |-> <<"2",".","5">>] }

\* what follows the second number: nothing, or a third number "7"
EngineTails ==
  { <<>>, <<[text |-> <<"7">>, val |-> 7 * Scale, repr |-> <<"7",".","0">>]>> }

\* the request "w1 n1 w2 n2" or "w1 n1 w2 n2 n3"
EngineText(w1, n1, w2, n2, tail) ==
  w1.text \o <<" ">> \o n1.text \o <<" ">> \o w2.text \o <<" ">> \o n2.text
    \o (IF tail = <<>> THEN <<>> ELSE <<" ">> \o tail[1].text)

InitEngine ==
  /\ InitAgent
  /\ probe \in [fn : {"parse_math_expression"}, w1 : EngineWords, n1 : EngineNumbers,
                 w2 : EngineWords, n2 : EngineNumbers, tail : EngineTails,
                 done : {FALSE}, expression : {<<>>}, numbers : {<<>>},
                 local_result : {NoLocal}]

\* parse_math_expression(text), then calculate_locally on its expression
ParseAndEvaluate ==
  /\ probe.fn = "parse_math_expression"
  /\ ~probe.done
  /\ \E parsed \in {parse_math_expression(
                      EngineText(probe.w1, probe.n1, probe.w2, probe.n2, probe.tail))} :
       probe' = [probe EXCEPT
                   !.done = TRUE,
                   !.expression = parsed.expression,
                   !.numbers = parsed.numbers,
                   !.local_result = calculate_locally(parsed.expression)]
  /\ UNCHANGED <<state, max_history, messages, calculation_history, pc, frame, last,
                 inserted, started, completed>>

NextEngine == ParseAndEvaluate

SpecEngine == InitEngine /\ [][NextEngine]_vars

\* ------------------------------- the ResponseProcessor applied on its own
\* A response is a beginning, a middle and an end; each part comes with the
\* values, in units, of the numeric tokens written in it.
\* "", "7 apples. ", "2 + 5 is 7. ", "The result: 7\n", "Well, "
ResponseBeginnings ==
  { [text |-> <<>>,
     numbers |-> <<>>],
    [text |-> <<"7"," ","a","p","p","l","e","s","."," ">>,
     numbers |-> <<7 * Scale>>],
    [text |-> <<"2"," ","+"," ","5"," ","i","s"," ","7","."," ">>,
     numbers |-> <<2 * Scale, 5 * Scale, 7 * Scale>>],
    [text |-> <<"T","h","e"," ","r","e","s","u","l","t",":"," ","7","\n">>,
     numbers |-> <<7 * Scale>>],
    [text |-> <<"W","e","l","l",","," ">>,
     numbers |-> <<>>] }

\* the middles; final is the N of a middle that reads "final answer: N"
\* "Final answer: 42", "final answer 42", "42 is the answer", "it equals -4.5", "no idea", "about 42"
ResponseMiddles ==
  { [text |-> <<"F","i","n","a","l"," ","a","n","s","w","e","r",":"," ","4","2">>,
     numbers |-> <<42 * Scale>>, final |-> Number(42 * Scale)],
    [text |-> <<"f","i","n","a","l"," ","a","n","s","w","e","r"," ","4","2">>,
     numbers |-> <<42 * Scale>>, final |-> NoNumber],
    [text |-> <<"4","2"," ","i","s"," ","t","h","e"," ","a","n","s","w","e","r">>,
     numbers |-> <<42 * Scale>>, final |-> NoNumber],
    [text |-> <<"i","t"," ","e","q","u","a","l","s"," ","-","4",".","5">>,
     numbers |-> <<(-9 * Scale) \div 2>>, final |-> NoNumber],
    [text |-> <<"n","o"," ","i","d","e","a">>,
     numbers |-> <<>>, final |-> NoNumber],
    [text |-> <<"a","b","o","u","t"," ","4","2">>,
     numbers |-> <<42 * Scale>>, final |-> NoNumber] }

\* "", " or 9 pears", "\n", ", which is 9"
ResponseEnds ==
  { [text |-> <<>>,
     numbers |-> <<>>],
    [text |-> <<" ","o","r"," ","9"," ","p","e","a","r","s">>,
     numbers |-> <<9 * Scale>>],
    [text |-> <<"\n">>,
     numbers |-> <<>>],
    [text |-> <<","," ","w","h","i","c","h"," ","i","s"," ","9">>,
     numbers |-> <<9 * Scale>>] }

ResponseText(beginning, middle, end) == beginning.text \o middle.text \o end.text

\* the request whose response is interpreted: "add 5 and 3"
ProbeRequest == BeforeCollaborator(InAdd, <<>>, DefaultMaxHistory)

NoAfter == [raised |-> FALSE, states |-> <<>>, error |-> NoError, raises |-> None,
            cause |-> NoCause, entry |-> NoEntry, history |-> <<>>, messages |-> <<>>,
            added |-> <<>>]

InitExtract ==
  /\ InitAgent
  /\ probe \in [fn : {"extract_result_from_response"}, beginning : ResponseBeginnings,
                 middle : ResponseMiddles, end : ResponseEnds,
                 done : {FALSE}, result : {NoNumber}, after : {NoAfter}]

\* extract_result_from_response(response_text), and process_request from the
\* return of the collaborator with response_text to its end, on a new agent
InterpretResponse ==
  /\ probe.fn = "extract_result_from_response"
  /\ ~probe.done
  /\ \E response_text \in {ResponseText(probe.beginning, probe.middle, probe.end)} :
       probe' = [probe EXCEPT
                   !.done = TRUE,
                   !.result = extract_result_from_response(response_text),
                   !.after = AfterCollaborator(ProbeRequest.expression, response_text,
                                               <<>>, ProbeRequest.messages,
                                               DefaultMaxHistory)]
  /\ UNCHANGED <<state, max_history, messages, calculation_history, pc, frame, last,
                 inserted, started, completed>>

NextExtract == InterpretResponse

SpecExtract == InitExtract /\ [][NextExtract]_vars

\* =================================================== NumberSumAgent
\* langchain_conv_example_calc.py: a graph of four nodes run by chat().
\* str.split(c), for a separator c of one character
RECURSIVE Split(_, _)
Split(s, c) ==
  IF ~HasChar(s, c) THEN <<s>>
  ELSE LET i == CHOOSE k \in 1..Len(s) : s[k] = c /\ \A j \in 1..(k - 1) : s[j] # c
       IN <<SubSeq(s, 1, i - 1)>> \o Split(SubSeq(s, i + 1, Len(s)), c)

\* one character of repr(str) between quotes q: the backslash and the quote
\* are escaped, white space other than the space is written as an escape
ReprChar(c, q) ==
  CASE c = "\\" -> <<"\\", "\\">>
    [] c = q -> <<"\\", q>>
    [] c = "\n" -> <<"\\", "n">>
    [] c = "\r" -> <<"\\", "r">>
    [] c = "\t" -> <<"\\", "t">>
    [] c = CharVT -> <<"\\", "x", "0", "b">>
    [] c = "\f" -> <<"\\", "x", "0", "c">>
    [] c = CharFS -> <<"\\", "x", "1", "c">>
    [] c = CharGS -> <<"\\", "x", "1", "d">>
    [] c = CharRS -> <<"\\", "x", "1", "e">>
    [] c = CharUS -> <<"\\", "x", "1", "f">>
    [] OTHER -> <<c>>

RECURSIVE ReprChars(_, _)
ReprChars(s, q) ==
  IF s = <<>> THEN <<>>
  ELSE ReprChar(s[1], q) \o ReprChars(SubSeq(s, 2, Len(s)), q)

\* repr of a str: between double quotes when it holds a single quote and no
\* double one, between single quotes otherwise
Repr(s) ==
  IF HasChar(s, "'") /\ ~HasChar(s, "\"")
  THEN <<"\"">> \o ReprChars(s, "\"") \o <<"\"">>
  ELSE <<"'">> \o ReprChars(s, "'") \o <<"'">>

\* Optional[str]
NoText == [some |-> FALSE, text |-> <<>>]
Text(t) == [some |-> TRUE, text |-> t]

\* Optional[Tuple[float, float]]
NoPair == [some |-> FALSE, num1 |-> 0, num2 |-> 0]
Pair(a, b) == [some |-> TRUE, num1 |-> a, num2 |-> b]

\* HumanMessage(content), AIMessage(content): a new message has no id (0)
HumanMessage(content) == [id |-> 0, type |-> "human", content |-> content]
AIMessage(content) == [id |-> 0, type |-> "ai", content |-> content]

\* the ids of a list of messages
MessageIds(msgs) == {msgs[k].id : k \in 1..Len(msgs)}

\* The reducer of the messages channel: a message without id is given a new
\* one (a uuid in the code, the next free number here); a message whose id is
\* in the list replaces the message of that id, any other is appended.
RECURSIVE add_messages(_, _)
add_messages(left, right) ==
  IF right = <<>> THEN left
  ELSE IF right[1].id \in MessageIds(left)
  THEN add_messages(
         [k \in 1..Len(left) |-> IF left[k].id = right[1].id THEN right[1] ELSE left[k]],
         SubSeq(right, 2, Len(right)))
  ELSE add_messages(
         Append(left, IF right[1].id = 0
                      THEN [right[1] EXCEPT !.id = Len(left) + 1]
                      ELSE right[1]),
         SubSeq(right, 2, Len(right)))

\* The state graph applies what a node returns: the messages go through the
\* reducer, every other key is overwritten.
ApplyUpdate(channels, returned) ==
  [returned EXCEPT !.messages = add_messages(channels.messages, returned.messages)]

\* the texts of the error messages, and of the replies of chat
\* "ERROR:"
MsgErrorPrefix ==
  <<"E","R","R","O","R",":">>
\* "Could not extract exactly two numbers"
MsgNotTwoNumbers ==
  <<"C","o","u","l","d"," ","n","o","t"," ","e","x","t","r","a","c","t"," ","e","x","a","c","t",
    "l","y"," ","t","w","o"," ","n","u","m","b","e","r","s">>
\* "Invalid number format: could not convert string to float: "
MsgInvalidFormat ==
  <<"I","n","v","a","l","i","d"," ","n","u","m","b","e","r"," ","f","o","r","m","a","t",":"," ",
    "c","o","u","l","d"," ","n","o","t"," ","c","o","n","v","e","r","t"," ","s","t","r","i","n",
    "g"," ","t","o"," ","f","l","o","a","t",":"," ">>
\* "Error extracting numbers: "
MsgExtractionFailed ==
  <<"E","r","r","o","r"," ","e","x","t","r","a","c","t","i","n","g"," ","n","u","m","b","e","r",
    "s",":"," ">>
\* "No valid numbers available for calculation"
MsgNoValidNumbers ==
  <<"N","o"," ","v","a","l","i","d"," ","n","u","m","b","e","r","s"," ","a","v","a","i","l","a",
    "b","l","e"," ","f","o","r"," ","c","a","l","c","u","l","a","t","i","o","n">>
\* "I'm sorry, I couldn't process your request. "
MsgSorry ==
  <<"I","'","m"," ","s","o","r","r","y",","," ","I"," ","c","o","u","l","d","n","'","t"," ","p",
    "r","o","c","e","s","s"," ","y","o","u","r"," ","r","e","q","u","e","s","t","."," ">>
\* the rest of the error response: the three example requests and the advice
MsgTryAgain ==
  <<"\n"," "," "," "," "," "," "," "," ","\n"," "," "," "," "," "," "," "," ","P","l","e","a",
    "s","e"," ","t","r","y"," ","a","g","a","i","n"," ","w","i","t","h"," ","a"," ","c","l","e",
    "a","r"," ","r","e","q","u","e","s","t"," ","l","i","k","e",":","\n"," "," "," "," "," ",
    " "," "," ","-"," ","\"","W","h","a","t"," ","i","s"," ","5"," ","+"," ","3","?","\"","\n",
    " "," "," "," "," "," "," "," ","-"," ","\"","A","d","d"," ","1","0"," ","a","n","d"," ",
    "1","5","\"","\n"," "," "," "," "," "," "," "," ","-"," ","\"","C","a","l","c","u","l","a",
    "t","e"," ","t","h","e"," ","s","u","m"," ","o","f"," ","7"," ","a","n","d"," ","8","\"",
    "\n"," "," "," "," "," "," "," "," ","\n"," "," "," "," "," "," "," "," ","M","a","k","e",
    " ","s","u","r","e"," ","t","o"," ","i","n","c","l","u","d","e"," ","e","x","a","c","t","l",
    "y"," ","t","w","o"," ","n","u","m","b","e","r","s"," ","i","n"," ","y","o","u","r"," ","r",
    "e","q","u","e","s","t",".">>
\* "I'm sorry, I couldn't generate a response."
MsgNoResponse ==
  <<"I","'","m"," ","s","o","r","r","y",","," ","I"," ","c","o","u","l","d","n","'","t"," ","g",
    "e","n","e","r","a","t","e"," ","a"," ","r","e","s","p","o","n","s","e",".">>
\* "The sum of "
MsgSumOf ==
  <<"T","h","e"," ","s","u","m"," ","o","f"," ">>
\* " and "
MsgAnd ==
  <<" ","a","n","d"," ">>
\* " is "
MsgIs ==
  <<" ","i","s"," ">>

\* AgentState as chat builds it for the message (lines 220-226)
InitialState(message) ==
  [messages |-> <<HumanMessage(message)>>,
   extracted_numbers |-> NoPair,
   sum_result |-> NoNumber,
   error_message |-> NoText,
   calculation_complete |-> FALSE]

\* the state of the graph before its input is applied
EmptyChannels ==
  [messages |-> <<>>, extracted_numbers |-> NoPair, sum_result |-> NoNumber,
   error_message |-> NoText, calculation_complete |-> FALSE]

\* the state extract_numbers returns when it stores an error message
ExtractionError(g, text) ==
  [g EXCEPT !.error_message = Text(text), !.extracted_numbers = NoPair]

\* extract_numbers taking the first two of two or more parts
ExtractTakesFirstTwo(g, llm) ==
  IF llm.raises THEN ExtractionError(g, MsgExtractionFailed \o llm.text)
  ELSE IF StartsWithAt(Strip(llm.text), 1, MsgErrorPrefix)
  THEN ExtractionError(g, Strip(llm.text))
  ELSE IF Len(Split(Strip(llm.text), ",")) >= 2
  THEN IF ~FloatValid(Strip(Split(Strip(llm.text), ",")[1]))
       THEN ExtractionError(g, MsgInvalidFormat
                                 \o Repr(Strip(Split(Strip(llm.text), ",")[1])))
       ELSE IF ~FloatValid(Strip(Split(Strip(llm.text), ",")[2]))
       THEN ExtractionError(g, MsgInvalidFormat
                                 \o Repr(Strip(Split(Strip(llm.text), ",")[2])))
       ELSE [g EXCEPT !.extracted_numbers =
                        Pair(FloatValue(Strip(Split(Strip(llm.text), ",")[1])),
                             FloatValue(Strip(Split(Strip(llm.text), ",")[2])))]
  ELSE ExtractionError(g, MsgNotTwoNumbers)

\* _extract_numbers, for the outcome llm of self.llm.invoke: it raises an
\* exception with str(e) = llm.text, or returns a response with content
\* llm.text
extract_numbers(g, llm) ==
  IF llm.raises THEN ExtractionError(g, MsgExtractionFailed \o llm.text)
  ELSE IF StartsWithAt(Strip(llm.text), 1, MsgErrorPrefix)
  THEN ExtractionError(g, Strip(llm.text))
  ELSE IF Len(Split(Strip(llm.text), ",")) = 2
  THEN IF ~FloatValid(Strip(Split(Strip(llm.text), ",")[1]))
       THEN ExtractionError(g, MsgInvalidFormat
                                 \o Repr(Strip(Split(Strip(llm.text), ",")[1])))
       ELSE IF ~FloatValid(Strip(Split(Strip(llm.text), ",")[2]))
       THEN ExtractionError(g, MsgInvalidFormat
                                 \o Repr(Strip(Split(Strip(llm.text), ",")[2])))
       ELSE [g EXCEPT !.extracted_numbers =
                        Pair(FloatValue(Strip(Split(Strip(llm.text), ",")[1])),
                             FloatValue(Strip(Split(Strip(llm.text), ",")[2])))]
  ELSE ExtractionError(g, MsgNotTwoNumbers)

\* _should_calculate_or_error: a tuple of two floats is truthy whatever the
\* floats are
should_calculate_or_error(g) ==
  IF g.extracted_numbers.some /\ ~g.error_message.some THEN "calculate" ELSE "error"

\* the conditional edges of extract_numbers (lines 76-83)
ConditionalEdges == [calculate |-> "calculate_sum", error |-> "handle_error"]

\* _calculate_sum
calculate_sum(g) ==
  IF g.extracted_numbers.some
  THEN [g EXCEPT !.sum_result = Number(g.extracted_numbers.num1 + g.extracted_numbers.num2),
                 !.calculation_complete = TRUE]
  ELSE [g EXCEPT !.error_message = Text(MsgNoValidNumbers),
                 !.calculation_complete = FALSE]

\* the fallback sentence of _generate_response (line 183)
FallbackResponse(g) ==
  MsgSumOf \o FormatFloat(g.extracted_numbers.num1) \o MsgAnd
    \o FormatFloat(g.extracted_numbers.num2) \o MsgIs
    \o FormatFloat(g.sum_result.val) \o <<".">>

\* generate_response answering a failure of the model with its error text
GenerateWithoutFallback(g, llm) ==
  [g EXCEPT !.messages =
     Append(g.messages,
            AIMessage(llm.text))]

\* _generate_response on the calculate branch, for the outcome llm of
\* self.llm.invoke
generate_response(g, llm) ==
  [g EXCEPT !.messages =
     Append(g.messages,
            AIMessage(IF llm.raises THEN FallbackResponse(g) ELSE llm.text))]

\* _handle_error: the f-string renders an error_message of None as "None"
handle_error(g) ==
  [g EXCEPT !.messages =
     Append(g.messages,
            AIMessage(MsgSorry
                        \o (IF g.error_message.some THEN g.error_message.text
                            ELSE <<"N", "o", "n", "e">>)
                        \o MsgTryAgain))]

\* the messages of type AIMessage of a list, in order
RECURSIVE AIMessages(_)
AIMessages(msgs) ==
  IF msgs = <<>> THEN <<>>
  ELSE (IF msgs[1].type = "ai" THEN <<msgs[1]>> ELSE <<>>)
         \o AIMessages(SubSeq(msgs, 2, Len(msgs)))

\* chat from the return of graph.invoke on (lines 233-237)
chat(result) ==
  IF AIMessages(result.messages) # <<>>
  THEN AIMessages(result.messages)[Len(AIMessages(result.messages))].content
  ELSE MsgNoResponse

\* ---- what the agent is given
\* chat calls of one agent
MaxChats == 2

\* "What is 5 + 3?", "add twenty and thirty"
ChatMessages ==
  { <<"W","h","a","t"," ","i","s"," ","5"," ","+"," ","3","?">>,
    <<"a","d","d"," ","t","w","e","n","t","y"," ","a","n","d"," ","t","h","i","r","t","y">> }

\* What the model does when _extract_numbers invokes it: it returns a content
\* or raises.  Each outcome comes with its kind and, for a pair, with the two
\* numbers in units and with the renderings of them and of their sum.
ExtractionOutcomes ==
  {
    \* '5,3'
    [raises |-> FALSE, text |-> <<"5",",","3">>,
     kind |-> "pair", num1 |-> 5 * Scale, num2 |-> 3 * Scale,
     repr1 |-> <<"5",".","0">>, repr2 |-> <<"3",".","0">>, reprsum |-> <<"8",".","0">>],
    \* '10.5, -2.5'
    [raises |-> FALSE, text |-> <<"1","0",".","5",","," ","-","2",".","5">>,
     kind |-> "pair", num1 |-> (21 * Scale) \div 2, num2 |-> (-5 * Scale) \div 2,
     repr1 |-> <<"1","0",".","5">>, repr2 |-> <<"-","2",".","5">>, reprsum |-> <<"8",".","0">>],
    \* ' 0 , 0 \n'
    [raises |-> FALSE, text |-> <<" ","0"," ",","," ","0"," ","\n">>,
     kind |-> "pair", num1 |-> 0, num2 |-> 0,
     repr1 |-> <<"0",".","0">>, repr2 |-> <<"0",".","0">>, reprsum |-> <<"0",".","0">>],
    \* '+7,.5'
    [raises |-> FALSE, text |-> <<"+","7",",",".","5">>,
     kind |-> "pair", num1 |-> 7 * Scale, num2 |-> Scale \div 2,
     repr1 |-> <<"7",".","0">>, repr2 |-> <<"0",".","5">>, reprsum |-> <<"7",".","5">>],
    \* 'ERROR: Cannot extract numbers'
    [raises |-> FALSE, text |-> <<"E","R","R","O","R",":"," ","C","a","n","n","o","t"," ","e","x","t","r","a","c","t"," ","n","u","m","b","e","r","s">>,
     kind |-> "error_reply", num1 |-> 0, num2 |-> 0,
     repr1 |-> <<>>, repr2 |-> <<>>, reprsum |-> <<>>],
    \* '  ERROR: 5,3\n'
    [raises |-> FALSE, text |-> <<" "," ","E","R","R","O","R",":"," ","5",",","3","\n">>,
     kind |-> "error_reply", num1 |-> 0, num2 |-> 0,
     repr1 |-> <<>>, repr2 |-> <<>>, reprsum |-> <<>>],
    \* '5'
    [raises |-> FALSE, text |-> <<"5">>,
     kind |-> "wrong_count", num1 |-> 0, num2 |-> 0,
     repr1 |-> <<>>, repr2 |-> <<>>, reprsum |-> <<>>],
    \* '5,3,1'
    [raises |-> FALSE, text |-> <<"5",",","3",",","1">>,
     kind |-> "wrong_count", num1 |-> 0, num2 |-> 0,
     repr1 |-> <<>>, repr2 |-> <<>>, reprsum |-> <<>>],
    \* ''
    [raises |-> FALSE, text |-> <<>>,
     kind |-> "wrong_count", num1 |-> 0, num2 |-> 0,
     repr1 |-> <<>>, repr2 |-> <<>>, reprsum |-> <<>>],
    \* 'five,3'
    [raises |-> FALSE, text |-> <<"f","i","v","e",",","3">>,
     kind |-> "not_numbers", num1 |-> 0, num2 |-> 0,
     repr1 |-> <<>>, repr2 |-> <<>>, reprsum |-> <<>>],
    \* '5,three'
    [raises |-> FALSE, text |-> <<"5",",","t","h","r","e","e">>,
     kind |-> "not_numbers", num1 |-> 0, num2 |-> 0,
     repr1 |-> <<>>, repr2 |-> <<>>, reprsum |-> <<>>],
    \* '5,'
    [raises |-> FALSE, text |-> <<"5",",">>,
     kind |-> "not_numbers", num1 |-> 0, num2 |-> 0,
     repr1 |-> <<>>, repr2 |-> <<>>, reprsum |-> <<>>],
    \* 'error: 5,3'
    [raises |-> FALSE, text |-> <<"e","r","r","o","r",":"," ","5",",","3">>,
     kind |-> "not_numbers", num1 |-> 0, num2 |-> 0,
     repr1 |-> <<>>, repr2 |-> <<>>, reprsum |-> <<>>],
    \* '5,3\r\n'
    [raises |-> FALSE, text |-> <<"5",",","3","\r","\n">>,
     kind |-> "pair", num1 |-> 5 * Scale, num2 |-> 3 * Scale,
     repr1 |-> <<"5",".","0">>, repr2 |-> <<"3",".","0">>, reprsum |-> <<"8",".","0">>],
    \* '5_3,\x0b2'
    [raises |-> FALSE, text |-> <<"5","_","3",",","","2">>,
     kind |-> "pair", num1 |-> 53 * Scale, num2 |-> 2 * Scale,
     repr1 |-> <<"5","3",".","0">>, repr2 |-> <<"2",".","0">>, reprsum |-> <<"5","5",".","0">>],
    \* '5\x1c,3'
    [raises |-> FALSE, text |-> <<"5",CharFS,",","3">>,
     kind |-> "pair", num1 |-> 5 * Scale, num2 |-> 3 * Scale,
     repr1 |-> <<"5",".","0">>, repr2 |-> <<"3",".","0">>, reprsum |-> <<"8",".","0">>],
    \* '5,_3'
    [raises |-> FALSE, text |-> <<"5",",","_","3">>,
     kind |-> "not_numbers", num1 |-> 0, num2 |-> 0,
     repr1 |-> <<>>, repr2 |-> <<>>, reprsum |-> <<>>],
    \* '5\r3,2'
    [raises |-> FALSE, text |-> <<"5","\r","3",",","2">>,
     kind |-> "not_numbers", num1 |-> 0, num2 |-> 0,
     repr1 |-> <<>>, repr2 |-> <<>>, reprsum |-> <<>>],
    \* 'connection reset'
    [raises |-> TRUE, text |-> <<"c","o","n","n","e","c","t","i","o","n"," ","r","e","s","e","t">>,
     kind |-> "exception", num1 |-> 0, num2 |-> 0,
     repr1 |-> <<>>, repr2 |-> <<>>, reprsum |-> <<>>] }

\* What the model does when _generate_response invokes it.
\* "5 + 3 = 8", "", and an exception "timed out"
ResponseOutcomes ==
  { [raises |-> FALSE, text |-> <<"5"," ","+"," ","3"," ","="," ","8">>],
    [raises |-> FALSE, text |-> <<>>],
    [raises |-> TRUE, text |-> <<"t","i","m","e","d"," ","o","u","t">>] }

NoOutcome == [raises |-> FALSE, text |-> <<>>, kind |-> "none", num1 |-> 0, num2 |-> 0,
              repr1 |-> <<>>, repr2 |-> <<>>, reprsum |-> <<>>]
NoResponseOutcome == [raises |-> FALSE, text |-> <<>>, kind |-> "none"]

\* the outcome of a model call as the node sees it
OutcomeOf(o) == [raises |-> o.raises, text |-> o.text]

\* NumberSumAgent(): no chat call has been made.  probe holds the run of
\* chat: the node to run next, the nodes run so far, the state of the graph
\* (g), what the model did, and what chat returned.
InitSum ==
  /\ InitAgent
  /\ probe = [fn |-> "chat", node |-> "idle", chats |-> 0, message |-> <<>>,
              visited |-> <<>>, g |-> EmptyChannels,
              extraction |-> NoOutcome, response |-> NoResponseOutcome,
              returned |-> NoText]

UnchangedAgent ==
  UNCHANGED <<state, max_history, messages, calculation_history, pc, frame, last,
              inserted, started, completed>>

\* chat(message) builds the initial state and graph.invoke enters the graph at
\* its entry point.
Chat(message) ==
  /\ probe.fn = "chat"
  /\ probe.node \in {"idle", "returned"}
  /\ probe.chats < MaxChats
  /\ probe' = [fn |-> "chat", node |-> "extract_numbers", chats |-> probe.chats + 1,
               message |-> message, visited |-> <<>>,
               g |-> ApplyUpdate(EmptyChannels, InitialState(message)),
               extraction |-> NoOutcome, response |-> NoResponseOutcome,
               returned |-> NoText]
  /\ UnchangedAgent

\* The node extract_numbers runs with outcome o of its model call; the
\* conditional edge chooses the next node.
ExtractNumbers(o) ==
  /\ probe.fn = "chat"
  /\ probe.node = "extract_numbers"
  /\ \E g \in {ApplyUpdate(probe.g, extract_numbers(probe.g, OutcomeOf(o)))} :
       probe' = [probe EXCEPT
                   !.g = g,
                   !.extraction = o,
                   !.visited = Append(probe.visited, "extract_numbers"),
                   !.node = ConditionalEdges[should_calculate_or_error(g)]]
  /\ UnchangedAgent

\* The node calculate_sum runs; its edge leads to generate_response.
CalculateSum ==
  /\ probe.fn = "chat"
  /\ probe.node = "calculate_sum"
  /\ probe' = [probe EXCEPT
                 !.g = ApplyUpdate(probe.g, calculate_sum(probe.g)),
                 !.visited = Append(probe.visited, "calculate_sum"),
                 !.node = "generate_response"]
  /\ UnchangedAgent

\* The node generate_response runs with outcome o of its model call; its edge
\* leads to END.
GenerateResponse(o) ==
  /\ probe.fn = "chat"
  /\ probe.node = "generate_response"
  /\ probe' = [probe EXCEPT
                 !.g = ApplyUpdate(probe.g, generate_response(probe.g, OutcomeOf(o))),
                 !.response = [raises |-> o.raises, text |-> o.text, kind |-> "called"],
                 !.visited = Append(probe.visited, "generate_response"),
                 !.node = "END"]
  /\ UnchangedAgent

\* The node handle_error runs; its edge leads to END.
HandleError ==
  /\ probe.fn = "chat"
  /\ probe.node = "handle_error"
  /\ probe' = [probe EXCEPT
                 !.g = ApplyUpdate(probe.g, handle_error(probe.g)),
                 !.visited = Append(probe.visited, "handle_error"),
                 !.node = "END"]
  /\ UnchangedAgent

\* graph.invoke returns the state and chat returns the last AI message.
ChatReturns ==
  /\ probe.fn = "chat"
  /\ probe.node = "END"
  /\ probe' = [probe EXCEPT !.returned = Text(chat(probe.g)), !.node = "returned"]
  /\ UnchangedAgent

\* a step of graph.invoke, or the return of chat
RunGraph ==
  \/ \E o \in ExtractionOutcomes : ExtractNumbers(o)
  \/ CalculateSum
  \/ \E o \in ResponseOutcomes : GenerateResponse(o)
  \/ HandleError
  \/ ChatReturns

NextSum ==
  \/ \E message \in ChatMessages : Chat(message)
  \/ \E o \in ExtractionOutcomes : ExtractNumbers(o)
  \/ CalculateSum
  \/ \E o \in ResponseOutcomes : GenerateResponse(o)
  \/ HandleError
  \/ ChatReturns

\* chat runs the graph in the calling thread, one node after the other, and
\* every call of the model returns or raises: a run that has begun goes on.
SpecSum == InitSum /\ [][NextSum]_vars /\ WF_vars(RunGraph)

\* ================================================================= claims
\* the numeric literals of a user input (computed once for the agent's inputs)
InputNumbersTable == [u \in UserInputs |-> extract_numbers_from_text(Strip(Lower(u)))]
InputNumbers(text) ==
  IF text \in UserInputs THEN InputNumbersTable[text]
  ELSE extract_numbers_from_text(Strip(Lower(text)))
\* the operator keyword of a user input, or None
InputOperationTable == [u \in UserInputs |-> FindOperation(Strip(Lower(u)))]
InputOperation(text) ==
  IF text \in UserInputs THEN InputOperationTable[text]
  ELSE FindOperation(Strip(Lower(text)))
\* what parse_math_expression returns for a user input
ParsedTable == [u \in UserInputs |-> parse_math_expression(u)]
Parsed(text) ==
  IF text \in UserInputs THEN ParsedTable[text] ELSE parse_math_expression(text)
\* the number extracted from a response of the collaborator
ExtractedTable == [r \in Responses |-> extract_result_from_response(r)]
Extracted(response_text) ==
  IF response_text \in Responses THEN ExtractedTable[response_text]
  ELSE extract_result_from_response(response_text)
\* a call has handed control back
Finished == last.outcome # "none"
LastOf(seq) == seq[Len(seq)]

\* C1: once max_history + k messages (k >= 0) have been added, the stored
\* sequence has exactly max_history entries and equals the most recent
\* max_history inserted messages in insertion order, for every capacity >= 0.
C1_Eviction ==
  Len(inserted) >= max_history =>
    /\ Len(messages) = max_history
    /\ messages = SubSeq(inserted, Len(inserted) - max_history + 1, Len(inserted))

\* C2: a call whose input yields at least two numbers, whose collaborator call
\* succeeds and whose response yields a number assigns Processing, Reasoning,
\* Verifying, Completed in exactly that order, and has appended its result to
\* the history and its assistant message to the memory when it returns.
C2_SuccessOrdering ==
  ( /\ Finished
    /\ Len(InputNumbers(last.input)) >= 2
    /\ last.collaborator = "returned"
    /\ Extracted(last.response).some )
  => /\ last.trace = <<"processing", "reasoning", "verifying", "completed">>
     /\ last.outcome = "returned"
     /\ last.exitState = "completed"
     /\ last.historyAfter = Append(last.historyBefore, last.result)
     /\ last.result # NoEntry
     /\ last.messagesAfter # <<>>
     /\ LastOf(last.messagesAfter).role = "assistant"

C2_Witness ==
  /\ last.outcome = "returned"
  /\ Len(last.historyBefore) = 1
  /\ Len(calculation_history) = 2

\* C3: with fewer than two numeric literals in the input the call assigns
\* Processing then Error and nothing else, never invokes the collaborator and
\* raises; on a fresh agent the state goes Idle, Processing, Error.
C3_ValidationFailure ==
  /\ ( Finished /\ Len(InputNumbers(last.input)) < 2 )
     => /\ last.trace = <<"processing", "error">>
        /\ last.collaborator = "not_called"
        /\ last.request = <<>>
        /\ last.outcome = "raised"
        /\ last.error # NoError
        /\ (started = 1 => last.entryState = "idle")
  /\ \A s \in Slots :
       pc[s] = "awaiting" => Len(InputNumbers(frame[s].input)) >= 2

C3_Witness ==
  /\ started = 1
  /\ last.outcome = "raised"
  /\ last.input = InOneNumber
  /\ state = "error"

\* C4: a call that ends in Error (validation failure, collaborator failure or
\* no number in the response) leaves calculation_history as it was at entry.
C4_FailureKeepsHistory ==
  ( Finished /\ last.exitState = "error" )
  => /\ last.historyAfter = last.historyBefore
     /\ (NoCallInFlight => calculation_history = last.historyBefore)

C4_Witness ==
  /\ last.exitState = "error"
  /\ last.collaborator = "returned"
  /\ Len(last.historyBefore) = 1

\* C5: after calls made one after the other, calculation_history has as many
\* entries as calls reached Completed; a completed call appended exactly one
\* entry and a call that ended in Error none.
C5_HistoryMatchesCompleted ==
  /\ Len(calculation_history) = completed
  /\ completed <= started
  /\ Finished =>
       Len(last.historyAfter) - Len(last.historyBefore)
         = (IF last.exitState = "completed" THEN 1 ELSE 0)

C5_Witness ==
  /\ started = 2
  /\ completed = 1
  /\ last.exitState = "error"
  /\ Len(calculation_history) = 1

\* C6: when a call hands control back the state is Completed or Error; the
\* call returns a CalculationResult iff the state is Completed and raises iff
\* the state is Error.
C6_TerminalOutcome ==
  /\ Finished =>
       /\ last.exitState \in {"completed", "error"}
       /\ (last.outcome = "returned") <=> (last.exitState = "completed")
       /\ (last.outcome = "raised") <=> (last.exitState = "error")
       /\ (last.outcome = "returned") <=> (last.result # NoEntry)
       /\ (last.outcome = "raised") <=> (last.error # NoError)
  /\ (Finished /\ NoCallInFlight) => state = last.exitState

C6_Witness ==
  /\ last.outcome = "raised"
  /\ last.collaborator = "raised"
  /\ state = "error"

\* C7 as stated: whenever the collaborator call returns, the call passes
\* through Verifying, also when the response holds no number.
C7_Original ==
  ( Finished /\ last.collaborator = "returned" )
  => \E i \in 1..Len(last.trace) : last.trace[i] = "verifying"

\* C7 amended: the response is interpreted in Reasoning; Verifying is assigned
\* only once a number has been extracted, and a response without a number
\* takes the call from Reasoning to Error without Verifying.
C7_InterpretedInReasoning ==
  ( Finished /\ last.collaborator = "returned" )
  => last.trace =
       (IF Extracted(last.response).some
        THEN <<"processing", "reasoning", "verifying", "completed">>
        ELSE <<"processing", "reasoning", "error">>)

C7_Witness ==
  /\ last.collaborator = "returned"
  /\ last.response = OutNoNumber
  /\ last.exitState = "error"

\* "a op b" built from the first two numbers of the input
IsCanonical(expression, text) ==
  /\ Len(InputNumbers(text)) >= 2
  /\ \E op \in {"+", "-", "*", "/"} :
       expression = FormatFloat(InputNumbers(text)[1]) \o <<" ", op, " ">>
                      \o FormatFloat(InputNumbers(text)[2])

\* C8 as stated: without an operator keyword parse returns no numbers, the call
\* raises without invoking the collaborator, and the collaborator is invoked
\* only with an expression "a op b".
C8_Original ==
  /\ ( Finished /\ InputOperation(last.input) = None )
     => /\ Parsed(last.input).numbers = <<>>
        /\ last.collaborator = "not_called"
        /\ last.outcome = "raised"
  /\ ( Finished /\ last.collaborator # "not_called" )
     => IsCanonical(last.expression, last.input)
  /\ \A s \in Slots :
       pc[s] = "awaiting" => IsCanonical(frame[s].expression, frame[s].input)

\* C8 amended: without an operator keyword parse returns the lower-cased,
\* stripped text and all the numbers found; the call raises the validation
\* failure iff fewer than two numbers were found; the collaborator is invoked
\* with "a op b" when a keyword was found and with that text otherwise.
C8_PassThrough ==
  /\ Finished =>
       /\ InputOperation(last.input) = None =>
            /\ Parsed(last.input).numbers = InputNumbers(last.input)
            /\ Parsed(last.input).expression = Strip(Lower(last.input))
       /\ (last.collaborator = "not_called") <=> (Len(InputNumbers(last.input)) < 2)
       /\ last.collaborator # "not_called" =>
            IF InputOperation(last.input) # None
            THEN IsCanonical(last.expression, last.input)
            ELSE last.expression = Strip(Lower(last.input))
  /\ \A s \in Slots :
       pc[s] = "awaiting" =>
         IF InputOperation(frame[s].input) # None
         THEN IsCanonical(frame[s].expression, frame[s].input)
         ELSE /\ frame[s].expression = Strip(Lower(frame[s].input))
              /\ frame[s].numbers = InputNumbers(frame[s].input)

C8_Witness ==
  /\ last.input = InNoKeyword
  /\ last.collaborator = "returned"
  /\ last.outcome = "returned"

\* C9: with d the distance of the model result from an available local result,
\* calculate_confidence gives 1.0 for d <= tol, 0.7 for tol < d <= 10 tol, 0.4
\* for 10 tol < d <= 100 tol and 0.1 for d > 100 tol.
C9_ConfidenceTiers ==
  ( probe.fn = "calculate_confidence" /\ probe.done /\ probe.local_result.some )
  => LET den == probe.local_result.den
         d == Abs(probe.ai_result * den - probe.local_result.num)
         tol == probe.tolerance * den
     IN /\ (probe.confidence = 10) <=> (d <= tol)
        /\ (probe.confidence = 7) <=> (tol < d /\ d <= 10 * tol)
        /\ (probe.confidence = 4) <=> (10 * tol < d /\ d <= 100 * tol)
        /\ (probe.confidence = 1) <=> (d > 100 * tol)

C9_Witness ==
  /\ probe.fn = "calculate_confidence"
  /\ probe.done
  /\ probe.local_result = Local(0, 1)
  /\ probe.tolerance = 2 * Tolerance
  /\ probe.ai_result = -20
  /\ probe.confidence = 7

\* C10: every CalculationResult of process_request has verification_passed
\* true iff the local result is available and the distance of the model result
\* from it is strictly below the tolerance; without a local result the
\* confidence is 0.5 and verification_passed is false.
C10_VerifiedFlag ==
  \A i \in 1..Len(calculation_history) :
    LET e == calculation_history[i]
        l == calculate_locally(e.expression)
    IN /\ e.verification_passed <=>
            (l.some /\ Abs(e.result * l.den - l.num) < VerificationTolerance * l.den)
       /\ ~l.some => (e.confidence = 5 /\ ~e.verification_passed)

C10_Witness ==
  /\ \E i \in 1..Len(calculation_history) :
       LET e == calculation_history[i]
           l == calculate_locally(e.expression)
       IN /\ l.some
          /\ Abs(e.result * l.den - l.num) = VerificationTolerance * l.den
          /\ ~e.verification_passed
          /\ e.confidence = 10
  /\ \E i \in 1..Len(calculation_history) :
       /\ ~calculate_locally(calculation_history[i].expression).some
       /\ calculation_history[i].confidence = 5

\* the probe of SpecEngine has been parsed and evaluated
Evaluated == probe.fn = "parse_math_expression" /\ probe.done

\* the operator of a request by the order of the keyword table: that of the
\* word whose keyword stands first in the table, None without a keyword
TableOperator(w1, w2) ==
  IF w1.entry = 0 THEN w2.op
  ELSE IF w2.entry = 0 THEN w1.op
  ELSE IF w1.entry <= w2.entry THEN w1.op ELSE w2.op

\* the arithmetic value a op b as a fraction of units; none for a / 0
ArithmeticValue(op, a, b) ==
  IF op = "+" THEN Local(a + b, 1)
  ELSE IF op = "-" THEN Local(a - b, 1)
  ELSE IF op = "*" THEN Product(a, b)
  ELSE IF b = 0 THEN NoLocal
  ELSE Quotient(a, b)

\* C11: for every expression "a op b" that the parser builds, with a and b any
\* extracted numbers (negative ones included), calculate_locally returns the
\* value a op b, and returns None only for a division by zero.
C11_TotalExceptDivisionByZero ==
  ( Evaluated /\ TableOperator(probe.w1, probe.w2) # None )
  => /\ probe.local_result
          = ArithmeticValue(TableOperator(probe.w1, probe.w2), probe.n1.val, probe.n2.val)
     /\ ~probe.local_result.some
          => (TableOperator(probe.w1, probe.w2) = "/" /\ probe.n2.val = 0)

\* C11 holds of the operands that carry no minus sign
C11_NonNegativeOperands ==
  ( Evaluated /\ TableOperator(probe.w1, probe.w2) # None
    /\ probe.n1.val >= 0 /\ probe.n2.val >= 0 )
  => /\ probe.local_result
          = ArithmeticValue(TableOperator(probe.w1, probe.w2), probe.n1.val, probe.n2.val)
     /\ ~probe.local_result.some
          => (TableOperator(probe.w1, probe.w2) = "/" /\ probe.n2.val = 0)

\* C12: once a number has been extracted from the collaborator's response the
\* call reaches Completed and appends exactly one history entry, whether the
\* model result agrees with the local result, differs from it, or no local
\* result is available; a result farther than the tolerance from the local one
\* shows only as a confidence below 1.0 with verification_passed false.
C12_MismatchCompletes ==
  ( Finished /\ last.collaborator = "returned"
    /\ Extracted(last.response).some )
  => /\ last.outcome = "returned"
     /\ last.exitState = "completed"
     /\ last.error = NoError
     /\ Len(last.historyAfter) = Len(last.historyBefore) + 1
     /\ LastOf(last.historyAfter) = last.result
     /\ last.result.result = Extracted(last.response).val
     /\ LET l == calculate_locally(last.expression)
        IN /\ ( l.some /\ Abs(last.result.result * l.den - l.num) > Tolerance * l.den )
                => (last.result.confidence < 10 /\ ~last.result.verification_passed)
           /\ ~l.some
                => (last.result.confidence < 10 /\ ~last.result.verification_passed)

\* a call completed with a result far from the local one, after a call
\* completed without a local result (a division by zero)
C12_Witness ==
  /\ last.outcome = "returned"
  /\ last.exitState = "completed"
  /\ last.input = InAdd
  /\ last.response = OutFar
  /\ last.result.confidence = 1
  /\ ~last.result.verification_passed
  /\ Len(calculation_history) = 2
  /\ calculation_history[1].confidence = 5
  /\ ~calculate_locally(calculation_history[1].expression).some

\* the class of an exception that reaches the except clause
ErrorCategory(kind) ==
  IF kind = "RateLimitError" THEN "rate limit"
  ELSE IF kind = "AuthenticationError" THEN "authentication"
  ELSE IF kind = "APIError" THEN "api"
  ELSE "other"

\* C13: the four failure categories map to four pairwise distinct messages,
\* rate-limit and authentication failures never to the message of a generic
\* API error; every failure that leaves process_request is a ValueError whose
\* text is the classifier's message for the original exception.
C13_ErrorClassification ==
  ( Finished /\ last.outcome = "raised" )
  => /\ last.raises = "ValueError"
     /\ last.cause # NoCause
     /\ last.cause.kind \in ErrorKinds
     /\ last.error.fixed =
          (IF ErrorCategory(last.cause.kind) = "rate limit"
             THEN "Rate limit exceeded. Please wait a moment and try again."
           ELSE IF ErrorCategory(last.cause.kind) = "authentication"
             THEN "Authentication failed. Please check your API key."
           ELSE IF ErrorCategory(last.cause.kind) = "api"
             THEN "API error occurred: "
           ELSE "Unexpected error: ")
     /\ last.error.text =
          (IF ErrorCategory(last.cause.kind) \in {"api", "other"}
           THEN last.cause.text ELSE "")
     /\ last.cause =
          (IF last.collaborator = "not_called"
             THEN [kind |-> "ValueError", text |-> MsgTooFewNumbers]
           ELSE IF last.collaborator = "returned"
             THEN [kind |-> "ValueError", text |-> MsgNoResult]
           ELSE [kind |-> last.cause.kind, text |-> MsgCollaborator])
     /\ last.collaborator = "raised" => last.cause.kind \in CollaboratorErrors

C13_Witness ==
  /\ last.outcome = "raised"
  /\ last.collaborator = "raised"
  /\ last.cause.kind = "AuthenticationError"
  /\ last.error.fixed = "Authentication failed. Please check your API key."
  /\ last.raises = "ValueError"

\* C14: a call of process_request that has passed validation suspends at the
\* collaborator call, so that tasks created together overlap there: a task
\* that starts to run with at least two numbers in its input hands control
\* back to the event loop while it awaits the collaborator.
C14_SuspendsAtCollaborator ==
  [][ \A s \in Slots :
        ( pc[s] = "scheduled" /\ pc'[s] # "scheduled"
          /\ Len(InputNumbers(frame[s].input)) >= 2 )
        => pc'[s] = "awaiting" ]_vars

\* what the code does instead: calls created together run one after the
\* other; no call is ever suspended, the state seen between two tasks is never
\* Processing, Reasoning or Verifying, the history holds one entry per
\* completed call in the order the calls started, and every assistant message
\* directly follows a user message.
C14_RunsToCompletion ==
  /\ \A s \in Slots : pc[s] # "awaiting"
  /\ state \in {"idle", "completed", "error"}
  /\ Len(calculation_history) = completed
  /\ Finished =>
       /\ last.entryState \in {"idle", "completed", "error"}
       /\ last.historyBefore = SubSeq(last.historyAfter, 1, Len(last.historyBefore))
  /\ \A k \in 1..Len(inserted) :
       inserted[k].role = "assistant" => (k > 1 /\ inserted[k - 1].role = "user")

\* seq is a prefix of longer
IsPrefix(seq, longer) ==
  /\ Len(seq) <= Len(longer)
  /\ SubSeq(longer, 1, Len(seq)) = seq

\* C15: across every operation on the agent (a process_request that succeeds
\* or fails, get_session_stats, export_history) the previous
\* calculation_history is a prefix of the current one: entries are never
\* removed, reordered or modified.
C15_HistoryAppendOnly ==
  [][IsPrefix(calculation_history, calculation_history')]_vars

\* the history holds an entry, a later call has failed, and the history has
\* been exported after that
C15_Witness ==
  /\ Len(calculation_history) = 1
  /\ started = 2
  /\ last.exitState = "error"
  /\ probe.fn = "export_history"
  /\ Len(probe.file) = 1

\* C16: for an input with an operation keyword and at least two numeric
\* literals, parse_math_expression returns "x1 op x2" with x1 and x2 the first
\* and the second literal in the order of the text, and exactly these two
\* numbers; the literals after the second are ignored.
C16_OperandOrder ==
  ( Evaluated /\ TableOperator(probe.w1, probe.w2) # None )
  => /\ probe.numbers = <<probe.n1.val, probe.n2.val>>
     /\ \E op \in {"+", "-", "*", "/"} :
          probe.expression = probe.n1.repr \o <<" ", op, " ">> \o probe.n2.repr

\* "Times -3 and 2.5 7": the third literal is ignored
C16_Witness ==
  /\ Evaluated
  /\ probe.w1.op = "*"
  /\ probe.w2.op = None
  /\ probe.n1.val = -3 * Scale
  /\ probe.n2.val = (5 * Scale) \div 2
  /\ probe.tail # <<>>
  /\ probe.numbers = <<-3 * Scale, (5 * Scale) \div 2>>
  /\ probe.expression = <<"-","3",".","0"," ","*"," ","2",".","5">>

\* the operator of a parsed expression "x1 op x2"
OperatorOf(expression, x1) == expression[Len(x1.repr) + 2]

\* C17: when the text holds keywords of more than one operation, the operator
\* chosen is that of the keyword that stands first in the keyword table,
\* wherever the keywords stand in the text.
C17_TableOrder ==
  ( Evaluated /\ probe.w1.entry # 0 /\ probe.w2.entry # 0 )
  => /\ Len(probe.expression) > Len(probe.n1.repr) + 2
     /\ OperatorOf(probe.expression, probe.n1)
          = (IF probe.w1.entry <= probe.w2.entry THEN probe.w1.op ELSE probe.w2.op)

\* "minus 5 add 2.5": add stands later in the text and first in the table
C17_Witness ==
  /\ Evaluated
  /\ probe.w1.op = "-"
  /\ probe.w2.op = "+"
  /\ probe.n1.val = 5 * Scale
  /\ probe.tail = <<>>
  /\ OperatorOf(probe.expression, probe.n1) = "+"

\* the probe of SpecExtract has been interpreted
Interpreted == probe.fn = "extract_result_from_response" /\ probe.done

\* the numeric tokens of the probed response, in the order of the text
ProbeTokens == probe.beginning.numbers \o probe.middle.numbers \o probe.end.numbers

\* the first pattern, in the order of the list, that matches the probed
\* response; 0 when none matches
FirstPattern ==
  LET ls == Lower(ResponseText(probe.beginning, probe.middle, probe.end))
  IN IF \A p \in 1..NumPatterns : SearchFrom(p, ls, 1) = 0 THEN 0
     ELSE CHOOSE p \in 1..NumPatterns :
            /\ SearchFrom(p, ls, 1) # 0
            /\ \A q \in 1..(p - 1) : SearchFrom(q, ls, 1) = 0

\* C18 as stated: the patterns are tried in the order 1 to 4 and the number of
\* the first one that matches is returned; whenever the response contains
\* "final answer: N" the result is N, whatever other numbers stand before or
\* after it.
C18_Original ==
  Interpreted =>
    /\ FirstPattern # 0 =>
         /\ probe.result.some
         /\ LET ls == Lower(ResponseText(probe.beginning, probe.middle, probe.end))
            IN probe.result.val = GroupValue(ls, SearchFrom(FirstPattern, ls, 1))
    /\ probe.middle.final.some => probe.result = probe.middle.final

\* C18 amended: the patterns are tried in the order 1 to 4 and the number of
\* the first one that matches is returned; with "final answer: N" in the
\* response pattern 1 always matches (on "answer: N", or on a keyword followed
\* by a number earlier in the text) and pattern 3 never decides; the result is
\* N when pattern 1 matches nowhere in the text before "final answer: N".
C18_FirstPatternWins ==
  Interpreted =>
    /\ FirstPattern # 3
    /\ FirstPattern # 0 =>
         LET ls == Lower(ResponseText(probe.beginning, probe.middle, probe.end))
         IN probe.result = Number(GroupValue(ls, SearchFrom(FirstPattern, ls, 1)))
    /\ probe.middle.final.some =>
         /\ FirstPattern = 1
         /\ SearchFrom(1, Lower(probe.beginning.text), 1) = 0
              => probe.result = probe.middle.final

\* "7 apples. Final answer: 42, which is 9": the numbers around do not count
C18_Witness ==
  /\ Interpreted
  /\ probe.middle.final = Number(42 * Scale)
  /\ probe.beginning.numbers = <<7 * Scale>>
  /\ probe.end.numbers = <<9 * Scale>>
  /\ FirstPattern = 1
  /\ probe.result = Number(42 * Scale)

\* C19: the result is None exactly when the response holds no numeric token;
\* when no pattern matches and a token exists the result is the last token;
\* a response without a result ends process_request in Error with a raised
\* failure and without a CalculationResult, and a present result is the one
\* recorded.
C19_NoSilentZero ==
  Interpreted =>
    /\ ~probe.result.some <=> (ProbeTokens = <<>>)
    /\ (FirstPattern = 0 /\ ProbeTokens # <<>>)
         => probe.result = Number(ProbeTokens[Len(ProbeTokens)])
    /\ ~probe.result.some =>
         /\ probe.after.raised
         /\ probe.after.states = <<"error">>
         /\ probe.after.raises = "ValueError"
         /\ probe.after.cause = [kind |-> "ValueError", text |-> MsgNoResult]
         /\ probe.after.entry = NoEntry
         /\ probe.after.history = <<>>
    /\ probe.result.some =>
         /\ ~probe.after.raised
         /\ probe.after.entry.result = probe.result.val
         /\ probe.after.history = <<probe.after.entry>>

\* "7 apples. about 42 or 9 pears": no pattern matches, the last token is 9
C19_WitnessFallback ==
  /\ Interpreted
  /\ FirstPattern = 0
  /\ ProbeTokens = <<7 * Scale, 42 * Scale, 9 * Scale>>
  /\ probe.result = Number(9 * Scale)
  /\ probe.after.entry.result = 9 * Scale

\* "Well, no idea\n": no token, no result, the call fails
C19_Witness ==
  /\ Interpreted
  /\ ProbeTokens = <<>>
  /\ probe.beginning.text # <<>>
  /\ probe.end.text # <<>>
  /\ probe.after.states = <<"error">>
  /\ probe.result = NoNumber
  /\ probe.after.raised

\* the context of the collaborator input of the call suspended in slot s
ContextOf(s) == frame[s].request[1].context

\* the last n elements of seq, all of them when seq is shorter
LastElements(seq, n) ==
  IF Len(seq) <= n THEN seq ELSE SubSeq(seq, Len(seq) - n + 1, Len(seq))

\* C20: the context sent to the collaborator holds at most 5 messages, which
\* are the most recent entries of the conversation memory prior to the current
\* request, in stored order; the raw input of the current request is not among
\* them; the instruction sent with them holds the parsed expression.
C20_ContextIsPrior ==
  \A s \in Slots :
    pc[s] = "awaiting" =>
      /\ Len(ContextOf(s)) <= ContextWindow
      /\ ContextOf(s) = LastElements(SubSeq(messages, 1, Len(messages) - 1), ContextWindow)
      /\ frame[s].request[1].expression = frame[s].expression

\* what the code sends: the most recent entries of the memory after the raw
\* input of the current request has been stored, so that the last context
\* message is that input and at most 4 are prior to the request
C20_ContextHoldsRequest ==
  \A s \in Slots :
    pc[s] = "awaiting" =>
      /\ Len(ContextOf(s)) <= ContextWindow
      /\ ContextOf(s) = LastElements(messages, ContextWindow)
      /\ ContextOf(s) # <<>>
      /\ LastOf(ContextOf(s)) = UserMessage(frame[s].input)
      /\ LastOf(messages) = UserMessage(frame[s].input)
      /\ frame[s].request[1].expression = frame[s].expression
      /\ messages = inserted

\* the fourth call awaits the collaborator with 7 messages in the memory
C20_TruncatedContext ==
  \E s \in Slots :
    /\ pc[s] = "awaiting"
    /\ Len(messages) = 7
    /\ Len(ContextOf(s)) = ContextWindow
    /\ ContextOf(s)[1] = messages[3]

\* ---------------------------------------------------------------------
\* the reply of the collaborator to the call that handed control back most
\* recently (any reply when the collaborator was not called)
LastReply ==
  IF last.collaborator = "raised"
  THEN [raises |-> TRUE, kind |-> last.cause.kind, text |-> <<>>]
  ELSE [raises |-> FALSE, kind |-> None, text |-> last.response]

\* process_request(u) on a newly constructed agent whose collaborator gives
\* reply r: the states it assigns, what it returns or raises, and the history
\* it leaves
FreshCall(u, r) ==
  LET b == BeforeCollaborator(u, <<>>, DefaultMaxHistory)
      a == AfterReply(b, r, <<>>, DefaultMaxHistory)
  IN [trace |-> b.states \o a.states, raised |-> a.raised, entry |-> a.entry,
      error |-> a.error, appended |-> a.history]
FreshCallTable == [u \in UserInputs |-> [r \in Replies |-> FreshCall(u, r)]]
FreshOutcome(u, r) ==
  IF u \in UserInputs /\ r \in Replies THEN FreshCallTable[u][r] ELSE FreshCall(u, r)

\* C21: a call made after a call that ended in Error or in Completed is
\* accepted and assigns Processing first; its state trace, its result or
\* error and the entries it appends to the history are those of the same input
\* and collaborator reply on a new agent, whatever state the agent was left in.
C21_CallsAreIndependent ==
  /\ Finished =>
       /\ last.trace[1] = "processing"
       /\ last.trace = FreshOutcome(last.input, LastReply).trace
       /\ last.result = FreshOutcome(last.input, LastReply).entry
       /\ last.error = FreshOutcome(last.input, LastReply).error
       /\ (last.outcome = "raised") <=> FreshOutcome(last.input, LastReply).raised
       /\ last.historyAfter
            = last.historyBefore \o FreshOutcome(last.input, LastReply).appended

C21_Witness ==
  /\ last.entryState = "error"
  /\ last.outcome = "returned"
  /\ last.exitState = "completed"
  /\ Len(last.historyBefore) = 0
  /\ started = 2

\* a call made after a completed call ends in Error
C21_WitnessAfterCompleted ==
  /\ last.entryState = "completed"
  /\ last.exitState = "error"
  /\ Len(last.historyBefore) = 1

\* the locally computed value of the expression of the last call
LocalOfLast == calculate_locally(last.expression)

\* C22: the result field of every CalculationResult that a call returns and
\* appends to the history is the number extracted from the response of the
\* collaborator, also when the locally computed value differs from it.
C22_ReportsCollaboratorResult ==
  ( Finished /\ last.outcome = "returned" )
  => /\ Extracted(last.response).some
     /\ last.result.result = Extracted(last.response).val
     /\ last.historyAfter # <<>>
     /\ LastOf(last.historyAfter) = last.result
     /\ (NoCallInFlight => LastOf(calculation_history).result
                             = Extracted(last.response).val)

C22_Witness ==
  /\ last.outcome = "returned"
  /\ LocalOfLast.some
  /\ LocalOfLast.num = 8 * Scale * LocalOfLast.den
  /\ last.result.result = 85000
  /\ LastOf(calculation_history).result = 85000
  /\ ~last.result.verification_passed

\* C24: the state is Idle exactly as long as no process_request call has
\* started; once a call has started the state is never Idle again, and between
\* two calls it is Completed or Error.
C24_IdleOnlyInitially ==
  /\ (state = "idle") <=> (started = 0)
  /\ (started > 0 /\ NoCallInFlight) => state \in {"completed", "error"}
  /\ Finished => "idle" \notin {last.trace[k] : k \in 1..Len(last.trace)}
  /\ (probe.fn = "get_session_stats" /\ started > 0)
       => probe.stats.current_state \in {"completed", "error"}

C24_Witness ==
  /\ started = 2
  /\ NoCallInFlight
  /\ last.entryState = "completed"
  /\ last.exitState = "error"
  /\ probe.fn = "get_session_stats"
  /\ probe.stats.current_state = "error"

\* a call has left the collaborator call in this step
LeavesCollaborator(s) == pc[s] = "awaiting" /\ pc'[s] # "awaiting"

\* C23: with a collaborator that returns or raises, a call that has entered
\* Reasoning reaches Completed or Error and hands control back; a call stays
\* in Reasoning as long as the collaborator has not responded, and only a
\* return or a raise of the collaborator ends the wait; a call that does not
\* reach Reasoning has ended in Error when it hands control back.
C23_TerminatesWithCollaborator ==
  /\ \A s \in Slots :
       (pc[s] = "awaiting") ~> (pc[s] = "idle" /\ state \in {"completed", "error"})
  /\ [](\A s \in Slots : pc[s] = "awaiting" => state = "reasoning")
  /\ [][\A s \in Slots :
          LeavesCollaborator(s) =>
            /\ last'.collaborator \in {"returned", "raised"}
            /\ last'.input = frame[s].input
            /\ state' \in {"completed", "error"}]_vars
  /\ []((Finished /\ last.collaborator = "not_called")
          => (last.exitState = "error" /\ "reasoning" \notin
                {last.trace[k] : k \in 1..Len(last.trace)}))

C23_Witness ==
  /\ started = 2
  /\ NoCallInFlight
  /\ last.collaborator = "raised"
  /\ last.trace = <<"processing", "reasoning", "error">>
  /\ state = "error"

\* the number of messages of a role in a sequence of messages
CountRole(msgs, role) == Cardinality({k \in 1..Len(msgs) : msgs[k].role = role})

\* a call of process_request(u) has started in this step
StartsCall(u) ==
  /\ started' = started + 1
  /\ \/ \E s \in Slots : pc[s] = "idle" /\ pc'[s] = "awaiting" /\ frame'[s].input = u
     \/ (\A s \in Slots : pc'[s] = pc[s]) /\ last'.input = u
                                          /\ last'.collaborator = "not_called"

\* C25: every call stores its user message in the memory, also when the
\* parsing then finds fewer than two numbers; a call that ends in Error has
\* stored that one user message and no assistant message and does not take it
\* out again; a call that ends in Completed has stored one user message and,
\* later, one assistant message.
C25_NoRollback ==
  /\ [][/\ started' # started =>
             \E u \in UserInputs :
               /\ StartsCall(u)
               /\ inserted' = Append(inserted, UserMessage(u))
               /\ messages' = Append(messages, UserMessage(u))
        /\ \A s \in Slots :
             LeavesCollaborator(s) =>
               IF state' = "error"
               THEN inserted' = inserted /\ messages' = messages
               ELSE /\ Len(inserted') = Len(inserted) + 1
                    /\ LastOf(inserted').role = "assistant"
                    /\ messages' = Append(messages, LastOf(inserted'))
                    /\ LastOf(messages) = UserMessage(frame[s].input)
        /\ (started' = started /\ \A s \in Slots : ~LeavesCollaborator(s))
             => (inserted' = inserted /\ messages' = messages)]_vars
  /\ [](/\ messages = inserted
        /\ CountRole(inserted, "user") = started
        /\ CountRole(inserted, "assistant") = completed
        /\ (Finished /\ NoCallInFlight /\ last.exitState = "error")
             => LastOf(messages) = UserMessage(last.input))

C25_Witness ==
  /\ NoCallInFlight
  /\ last.exitState = "error"
  /\ last.collaborator = "returned"
  /\ Len(messages) = 3
  /\ messages[1].role = "user"
  /\ messages[2].role = "assistant"
  /\ messages[3] = UserMessage(last.input)

\* a call without two numbers has left its user message in the memory
C25_WitnessValidation ==
  /\ last.collaborator = "not_called"
  /\ last.exitState = "error"
  /\ messages = <<UserMessage(InOneNumber)>>

\* C26: after calls made one after the other, as many assistant messages have
\* been stored in the memory as the history has entries; get_session_stats
\* reports that number as total_calculations, and reports average_confidence
\* and verification_rate as 0 when the history is empty.
C26_AssistantMessagesTrackHistory ==
  /\ CountRole(inserted, "assistant") = Len(calculation_history)
  /\ probe.fn = "get_session_stats" =>
       /\ probe.stats.total_calculations = Len(calculation_history)
       /\ probe.stats.total_calculations = CountRole(inserted, "assistant")
       /\ calculation_history = <<>> =>
            /\ probe.stats.average_confidence = [num |-> 0, den |-> 1]
            /\ probe.stats.verification_rate = [num |-> 0, den |-> 1]
            /\ probe.stats.total_tokens_used = 0
       /\ calculation_history # <<>> =>
            /\ probe.stats.average_confidence.den > 0
            /\ probe.stats.average_confidence.num * Len(calculation_history)
                 = SumConfidence(calculation_history) * probe.stats.average_confidence.den
            /\ probe.stats.verification_rate.num * Len(calculation_history)
                 = CountVerified(calculation_history) * probe.stats.verification_rate.den

C26_Witness ==
  /\ probe.fn = "get_session_stats"
  /\ probe.stats.total_calculations = 1
  /\ started = 2
  /\ CountRole(inserted, "assistant") = 1
  /\ CountRole(inserted, "user") = 2

\* the statistics of a session in which every call failed
C26_WitnessEmpty ==
  /\ probe.fn = "get_session_stats"
  /\ started = 2
  /\ calculation_history = <<>>
  /\ probe.stats.average_confidence = [num |-> 0, den |-> 1]

\* C27: in every entry of the history verification_passed implies confidence
\* 1.0, confidence 0.5 implies that verification_passed is false, and the
\* confidence is one of 1.0, 0.7, 0.4, 0.1 and 0.5 (in tenths here).
C27_VerifiedImpliesFullConfidence ==
  \A i \in 1..Len(calculation_history) :
    /\ calculation_history[i].verification_passed
         => calculation_history[i].confidence = 10
    /\ calculation_history[i].confidence = 5
         => ~calculation_history[i].verification_passed
    /\ calculation_history[i].confidence \in {10, 7, 4, 1, 5}

\* a verified entry whose result differs from the local value (0.3333 for
\* 1 / 3), next to an entry without a local value
C27_Witness ==
  /\ Len(calculation_history) = 2
  /\ \E i \in 1..2 :
       /\ calculation_history[i].verification_passed
       /\ calculation_history[i].confidence = 10
       /\ calculation_history[i].result = 3333
       /\ calculate_locally(calculation_history[i].expression).some
       /\ calculate_locally(calculation_history[i].expression).den = 3
  /\ \E i \in 1..2 :
       /\ calculation_history[i].confidence = 5
       /\ ~calculation_history[i].verification_passed

\* ---------------------------------------------------------------------
\* the run of the graph took the branch of calculate_sum
TookCalculate ==
  \/ probe.node = "calculate_sum"
  \/ (Len(probe.visited) >= 2 /\ probe.visited[2] = "calculate_sum")

\* the run of the graph took the branch of handle_error
TookError ==
  \/ probe.node = "handle_error"
  \/ (Len(probe.visited) >= 2 /\ probe.visited[2] = "handle_error")

\* the number of occurrences of the character c in s
CountChar(s, c) == Cardinality({k \in 1..Len(s) : s[k] = c})

\* the node that the edges of the graph give after the nodes run so far
NodeAfter(visited) ==
  IF visited = <<>> THEN {"extract_numbers"}
  ELSE IF visited = <<"extract_numbers">> THEN {"calculate_sum", "handle_error"}
  ELSE IF visited = <<"extract_numbers", "calculate_sum">> THEN {"generate_response"}
  ELSE IF visited = <<"extract_numbers", "calculate_sum", "generate_response">>
  THEN {"END", "returned"}
  ELSE IF visited = <<"extract_numbers", "handle_error">> THEN {"END", "returned"}
  ELSE {}

\* C28: a run of the graph starts at extract_numbers and goes on with
\* calculate_sum and generate_response, or with handle_error, and ends; it
\* takes the calculate branch iff extract_numbers stored two numbers and no
\* error message; sum_result is set, to num1 + num2 and with
\* calculation_complete, only after a successful extraction; a reply that
\* starts with "ERROR:", has not exactly two parts, or holds a part that is no
\* number, is routed to handle_error.
C28_WorkflowRouting ==
  (probe.node \notin {"idle"}) =>
    /\ probe.node \in NodeAfter(probe.visited)
    /\ Len(probe.visited) >= 1 =>
         /\ TookCalculate <=> (probe.g.extracted_numbers.some /\ ~probe.g.error_message.some)
         /\ TookCalculate <=> ~TookError
         /\ TookCalculate <=> probe.extraction.kind = "pair"
         /\ probe.extraction.kind = "pair" =>
              probe.g.extracted_numbers = Pair(probe.extraction.num1, probe.extraction.num2)
         /\ probe.extraction.kind # "pair" =>
              (probe.g.extracted_numbers = NoPair /\ probe.g.error_message.some)
         /\ (~probe.extraction.raises
               /\ StartsWithAt(Strip(probe.extraction.text), 1, MsgErrorPrefix)) => TookError
         /\ (~probe.extraction.raises
               /\ CountChar(Strip(probe.extraction.text), ",") # 1) => TookError
         /\ probe.extraction.kind \in {"error_reply", "wrong_count", "not_numbers",
                                       "exception"} => TookError
    /\ probe.g.sum_result.some <=>
         (Len(probe.visited) >= 2 /\ probe.visited[2] = "calculate_sum")
    /\ probe.g.sum_result.some <=> probe.g.calculation_complete
    /\ probe.g.sum_result.some =>
         /\ probe.extraction.kind = "pair"
         /\ probe.g.sum_result.val = probe.extraction.num1 + probe.extraction.num2

\* the run for the reply "10.5, -2.5" has ended after generate_response
C28_Witness ==
  /\ probe.fn = "chat"
  /\ probe.node = "returned"
  /\ probe.visited = <<"extract_numbers", "calculate_sum", "generate_response">>
  /\ probe.extraction.text = <<"1","0",".","5",","," ","-","2",".","5">>
  /\ probe.g.extracted_numbers = Pair(105000, -25000)
  /\ probe.g.sum_result = Number(80000)
  /\ probe.g.calculation_complete

\* the run for the reply "5,3,1" has ended after handle_error
C28_WitnessError ==
  /\ probe.fn = "chat"
  /\ probe.node = "returned"
  /\ probe.visited = <<"extract_numbers", "handle_error">>
  /\ probe.extraction.text = <<"5",",","3",",","1">>
  /\ probe.g.sum_result = NoNumber
  /\ probe.g.error_message = Text(MsgNotTwoNumbers)

\* C29: every chat call ends and returns a text, whether the model returns a
\* pair, an "ERROR:" reply or a malformed reply, or raises in either call; the
\* run has appended exactly one AI message to the messages of the state, whose
\* content chat returns; when the model raises in generate_response the text
\* is the fallback sentence with both numbers and their sum.
C29_ChatAlwaysAnswers ==
  /\ (probe.node \notin {"idle", "returned"}) ~> (probe.node = "returned")
  /\ [](probe.node \in {"extract_numbers", "calculate_sum", "generate_response",
                        "handle_error"}
          => /\ probe.g.messages = <<[id |-> 1, type |-> "human", content |-> probe.message]>>
             /\ ~probe.returned.some)
  /\ [](probe.node \in {"END", "returned"}
          => /\ Len(probe.g.messages) = 2
             /\ probe.g.messages[1] = [id |-> 1, type |-> "human", content |-> probe.message]
             /\ probe.g.messages[2].type = "ai"
             /\ Len(AIMessages(probe.g.messages)) = 1)
  /\ [](probe.node = "returned"
          => /\ probe.returned.some
             /\ probe.returned.text = probe.g.messages[2].content
             /\ TookError =>
                  /\ probe.response.kind = "none"
                  /\ IsPrefix(MsgSorry, probe.returned.text)
             /\ TookCalculate =>
                  /\ probe.response.kind = "called"
                  /\ probe.response.raises =>
                       probe.returned.text
                         = MsgSumOf \o probe.extraction.repr1 \o MsgAnd
                             \o probe.extraction.repr2 \o MsgIs
                             \o probe.extraction.reprsum \o <<".">>
                  /\ ~probe.response.raises =>
                       probe.returned.text = probe.response.text)

\* chat has returned "The sum of 10.5 and -2.5 is 8.0." after the model raised
\* in generate_response
C29_Witness ==
  /\ probe.fn = "chat"
  /\ probe.node = "returned"
  /\ probe.response.kind = "called"
  /\ probe.response.raises
  /\ probe.returned = Text(<<"T","h","e"," ","s","u","m"," ","o","f"," ","1","0",".","5"," ","a","n","d"," ","-","2",".","5"," ","i","s"," ","8",".","0",".">>)

\* chat has returned the error response after the model raised in
\* extract_numbers
C29_WitnessExtractionFails ==
  /\ probe.fn = "chat"
  /\ probe.node = "returned"
  /\ probe.extraction.raises
  /\ probe.g.error_message = Text(MsgExtractionFailed \o probe.extraction.text)
  /\ probe.returned = Text(MsgSorry \o MsgExtractionFailed \o probe.extraction.text
                             \o MsgTryAgain)

====
